---- MODULE Spec2Model ----
(***************************************************************************)
(* The MLX-VLM bridge daemon of scripts/mlx_bridge.py as a state machine:  *)
(* the accept loop and the per-connection read loop of main, the request   *)
(* router handle_request and the batch loop of handle_describe_images.     *)
(* The daemon is single-threaded; its control point is pc.  The inference  *)
(* engine is opaque: a call returns or raises.  The model starts where     *)
(* main has installed its signal handlers and covers startup, the clients  *)
(* waiting in the listen queue, termination signals and shutdown.          *)
(***************************************************************************)
EXTENDS Integers, Sequences, FiniteSets, TLC

\* ------------------------------------------------------------------ bounds
\* Images a client sends on one connection, summed over its requests.
MaxImages == 5
\* Bytes a client sends on one connection.
MaxBytes == 6

\* ------------------------------------------------- configuration constants
\* ESCRIBANO_VLM_BATCH_SIZE default.
BATCH_SIZE == 4
\* server_socket.listen(1): connections the kernel queues for accept.
BACKLOG == 1

VARIABLES
    pc,         \* control point of the daemon
    exit,       \* how the process ended, once it has
    engine,     \* model, processor and config are loaded
    stdout,     \* the lines written to standard output
    listening,  \* server_socket is bound and listening
    sockFile,   \* a file exists at SOCKET_PATH
    pending,    \* clients connected and waiting to be accepted
    open,       \* connections accepted and not yet closed
    inflight,   \* inference calls in progress
    stream,     \* the bytes the connected client sends before closing
    rpos,       \* how many of them recv has returned
    buffer,     \* main's buffer: decoded text not yet split into lines
    lineNo,     \* lines handed to handle_request on this connection
    cur,        \* locals of handle_describe_images
    batch_idx,  \* loop variable of the batch loop
    log,        \* what happened on this connection, in order
    endReason,  \* why the read loop of this connection ended
    content_text, \* the text the engine generated for the batch
    results,    \* the FrameResults parsed from it
    peer,       \* the client of the open connection: "here" or "gone"
    logged,     \* the errors main and send_response logged in the last step
    ocrText,    \* the OCR text of a frame handed to detect_media_indicators
    indicators, \* the media indicators it returned
    call,       \* the arguments of the last call of generate
    single,     \* what parse_vlm_response returned
    daemons,    \* the daemon processes started on one socket path
    path        \* the file at that path and the process whose socket it is

vars == <<pc, exit, engine, stdout, listening, sockFile, pending, open, inflight,
          stream, rpos, buffer, lineNo, cur, batch_idx, log, endReason,
          content_text, results, peer, logged, ocrText, indicators,
          call, single, daemons, path>>

\* The variables of the connection being served.
conn == <<stream, rpos, buffer, lineNo, cur, batch_idx, log, endReason>>

\* The variables of the process and its socket.
proc == <<exit, engine, stdout, listening, sockFile>>

\* The locals of process_interleaved_batch.  Spec leaves the generated text
\* aside: there a batch succeeds or raises.  ParserSpec follows the text
\* through parse_interleaved_output.
parser == <<content_text, results, call, single>>

\* The variables of the visual observer.
observer == <<ocrText, indicators>>

\* The processes started on one socket path and the file at that path.
hosts == <<daemons, path>>

\* ------------------------------------------------------- python helpers
\* generate has not been called.
NoCall == <<>>

\* parse_vlm_response has not been called.
NoResult == [called |-> FALSE]

\* No process has been started on the socket path.
NoDaemons == <<>>

\* Nothing exists at SOCKET_PATH.
NoFile == [exists |-> FALSE]

Min(a, b) == IF a < b THEN a ELSE b

\* dict.get(key, default)
Get(d, key, default) == IF key \in DOMAIN d THEN d[key] ELSE default

\* seq[a:b] for 0 <= a <= b
Slice(s, a, b) == SubSeq(s, a + 1, Min(b, Len(s)))

\* a // b for a >= 0, b > 0
FloorDiv(a, b) == a \div b

\* ------------------------------------------------------- JSON values
JInt(n) == [t |-> "int", n |-> n]
\* a JSON number that is not an integer, such as 2.5
JFloat == [t |-> "float"]
JAbsent == [t |-> "absent"]

Frame(p) == [index |-> p - 1, timestamp |-> p]
Images(n) == [p \in 1..n |-> Frame(p)]

\* ------------------------------------------------------- bytes and text
\* A byte of the wire and a character of the decoded text are records
\* [k |-> kind].  The text of a JSON object is Open (its opening brace and
\* whatever precedes the members the router reads), any non-ASCII characters
\* of a string value, and Body(v): the members v and the closing brace.
NL == [k |-> "nl"]
Sp == [k |-> "sp"]
Open == [k |-> "open"]
Scalar == [k |-> "scalar"]
\* the two bytes of a two-byte UTF-8 character, and the character
Lead == [k |-> "lead"]
Cont == [k |-> "cont"]
EAcute == [k |-> "u"]
Body(v) == [k |-> "body", v |-> v]

\* ------------------------------------------------------- client messages
BatchSizeChoices == {JAbsent, JFloat} \cup {JInt(n) : n \in -1..3}

Messages ==
    {[kind |-> "describe", hasImages |-> h, n |-> n, bs |-> b] :
        h \in BOOLEAN, n \in 0..MaxImages, b \in BatchSizeChoices}
    \cup {[kind |-> k] : k \in {"blank", "unknown", "bare", "unicode", "unterminated",
                                "malformed", "scalar", "shutdown"}}

\* The requests drawn: a request without an images member has no frames.
WellFormed(m) == m.kind = "describe" /\ ~m.hasImages => m.n = 0 /\ m.bs \in {JAbsent, JInt(0)}

Cost(m) == IF m.kind = "describe" THEN m.n ELSE 0

ParamsOf(m) ==
    (IF m.hasImages THEN "images" :> Images(m.n) ELSE <<>>)
    @@ (IF m.bs.t = "absent" THEN <<>> ELSE "batchSize" :> m.bs)

\* The bytes of message m sent with request id `id`; a bare request is the
\* object without members: it has no id, no method and no params.
Encode(m, id) ==
    CASE m.kind = "describe" ->
           <<Open, Body([id |-> id, method |-> "describe_images", params |-> ParamsOf(m)]), NL>>
      [] m.kind = "unknown" ->
           <<Open, Body([id |-> id, method |-> "foo", params |-> <<>>]), NL>>
      [] m.kind = "bare" -> <<Open, Body(<<>>), NL>>
      [] m.kind = "unicode" ->
           <<Open, Lead, Cont, Body([id |-> id, method |-> "foo", params |-> <<>>]), NL>>
      [] m.kind = "unterminated" ->
           <<Open, Body([id |-> id, method |-> "foo", params |-> <<>>])>>
      [] m.kind = "shutdown" ->
           <<Open, Body([id |-> id, method |-> "shutdown"]), NL>>
      [] m.kind = "blank" -> <<Sp, NL>>
      [] m.kind = "malformed" -> <<Open, NL>>
      [] m.kind = "scalar" -> <<Scalar, NL>>

\* The streams of at most `bytes` bytes carrying at most `images` images; the
\* k-th message of a stream has request id k.
RECURSIVE Streams(_, _, _)
Streams(bytes, images, k) ==
    {<<>>} \cup
    UNION {{Encode(m, k) \o s : s \in Streams(bytes - Len(Encode(m, k)), images - Cost(m), k + 1)} :
             m \in {x \in Messages : /\ WellFormed(x)
                                     /\ Cost(x) <= images
                                     /\ Len(Encode(x, k)) <= bytes}}

\* ------------------------------------------------------- text handling
DecodeError == [ok |-> FALSE, text |-> <<>>]

\* chunk.decode("utf-8"): strict, so every character must be whole.
RECURSIVE Utf8Decode(_)
Utf8Decode(bs) ==
    IF bs = <<>> THEN [ok |-> TRUE, text |-> <<>>]
    ELSE IF Head(bs).k = "cont" THEN DecodeError
    ELSE IF Head(bs).k = "lead" THEN
        IF Len(bs) >= 2 /\ bs[2].k = "cont"
        THEN LET r == Utf8Decode(SubSeq(bs, 3, Len(bs)))
             IN  IF r.ok THEN [ok |-> TRUE, text |-> <<EAcute>> \o r.text] ELSE DecodeError
        ELSE DecodeError
    ELSE LET r == Utf8Decode(Tail(bs))
         IN  IF r.ok THEN [ok |-> TRUE, text |-> <<Head(bs)>> \o r.text] ELSE DecodeError

\* "\n" in text
HasNewline(text) == \E i \in 1..Len(text) : text[i].k = "nl"

FirstNewline(text) ==
    CHOOSE i \in 1..Len(text) :
        text[i].k = "nl" /\ \A j \in 1..(i - 1) : text[j].k # "nl"

\* text.split("\n", 1)
SplitLine(text) ==
    LET i == FirstNewline(text)
    IN  [line |-> SubSeq(text, 1, i - 1), rest |-> SubSeq(text, i + 1, Len(text))]

\* line.strip()
RECURSIVE LStrip(_)
LStrip(t) == IF t # <<>> /\ Head(t).k = "sp" THEN LStrip(Tail(t)) ELSE t

RECURSIVE RStrip(_)
RStrip(t) ==
    IF t # <<>> /\ t[Len(t)].k = "sp" THEN RStrip(SubSeq(t, 1, Len(t) - 1)) ELSE t

Strip(t) == RStrip(LStrip(t))

\* json.loads(line): an object is Open, any non-ASCII characters, Body; a
\* lone scalar is a value that is no object; anything else is a
\* JSONDecodeError.  Surrounding whitespace is allowed.
JsonLoads(line) ==
    LET t == Strip(line)
    IN  IF /\ Len(t) >= 2
           /\ t[1].k = "open"
           /\ t[Len(t)].k = "body"
           /\ \A i \in 2..(Len(t) - 1) : t[i].k = "u"
        THEN [ok |-> TRUE, t |-> "object", v |-> t[Len(t)].v]
        ELSE IF t = <<Scalar>> THEN [ok |-> TRUE, t |-> "scalar"]
        ELSE [ok |-> FALSE]

\* ------------------------------------------------------- responses
\* An error text is a tuple of its parts.
EmptyResponse_notTerminal(id) == [id |-> id, error |-> <<"No images provided">>]

EmptyResponse(id) == [id |-> id, error |-> <<"No images provided">>, done |-> TRUE]

DoneResponse(id) == [id |-> id, done |-> TRUE]

BatchNum_zeroBased(idx, size) == FloorDiv(idx, size)

BatchNum(idx, size) == FloorDiv(idx, size) + 1

IsPartial_offByOne(idx, size, total) == idx + size <= total

IsPartial(idx, size, total) == idx + size < total

Progress_beforeBatch(idx, batch, total) == [current |-> idx, total |-> total]

Progress(idx, batch, total) == [current |-> idx + Len(batch), total |-> total]

ParseInterleavedOutput_dropsLast(batch) ==
    [i \in 1..(Len(batch) - 1) |-> [index |-> Get(batch[i], "index", i - 1),
                                    timestamp |-> batch[i].timestamp]]

\* One FrameResult per frame of the batch, parsed or placeholder.
ParseInterleavedOutput(batch) ==
    [i \in 1..Len(batch) |-> [index |-> Get(batch[i], "index", i - 1),
                              timestamp |-> batch[i].timestamp]]

OkResponse(id, idx, size, batch, total) ==
    [id |-> id, batch |-> BatchNum(idx, size),
     results |-> ParseInterleavedOutput(batch), stats |-> "stats",
     partial |-> IsPartial(idx, size, total),
     progress |-> Progress(idx, batch, total)]

ErrorResponse_withResults(id, idx, size, batch, total) ==
    [id |-> id, batch |-> BatchNum(idx, size), error |-> <<"engine error">>,
     results |-> <<>>,
     partial |-> IsPartial(idx, size, total),
     progress |-> Progress(idx, batch, total)]

ErrorResponse_final(id, idx, size, batch, total) ==
    [id |-> id, batch |-> BatchNum(idx, size), error |-> <<"engine error">>,
     partial |-> FALSE,
     progress |-> Progress(idx, batch, total)]

ErrorResponse(id, idx, size, batch, total) ==
    [id |-> id, batch |-> BatchNum(idx, size), error |-> <<"engine error">>,
     partial |-> IsPartial(idx, size, total),
     progress |-> Progress(idx, batch, total)]

\* handle_request's own Responses.
ShutdownResponse(id) == [id |-> id, status |-> "shutting_down"]

UnknownResponse_noId(id, method) == [error |-> <<"Unknown method: ", method>>]

UnknownResponse(id, method) == [id |-> id, error |-> <<"Unknown method: ", method>>]

InvalidJsonResponse_withId == [id |-> 0, error |-> <<"Invalid JSON: ", "details">>]

\* The text of the JSONDecodeError is not modelled.
InvalidJsonResponse == [error |-> <<"Invalid JSON: ", "details">>]

\* str(e) of any other exception.
ExceptionResponse(message) == [error |-> <<message>>]

\* ------------------------------------------------------- events
\* The log of a connection: a line handed to handle_request, a call of the
\* inference engine with a batch, its return or exception, and a Response
\* handed to send_response.  Every event carries the number of its line.
LineEv(n, text) == [ev |-> "line", line |-> n, text |-> text]
CallEv(n, batch) == [ev |-> "call", line |-> n, frames |-> batch]
RetEv(n, raised) == [ev |-> "ret", line |-> n, raised |-> raised]
RespEv(n, r) == [ev |-> "resp", line |-> n, r |-> r]

NoReq == [request_id |-> 0, images |-> <<>>, batch_size |-> 0, total |-> 0]

\* send_response: sendall raises when the client is gone; the exception is
\* caught and "Failed to send response" is logged.  What the step logs if it
\* sends or not.
SendLog(sends) == IF sends /\ peer = "gone" THEN {"Failed to send response"} ELSE {}

\* ------------------------------------------------------- request router
\* range(0, total, step) holds idx
InRange(idx, total, step) == IF step > 0 THEN idx < total ELSE idx > total

\* handle_describe_images up to its first batch: what it sends, where the
\* daemon goes next, and the locals of the batch loop.  The exceptions of
\* range() reach handle_request's generic handler.
StartDescribe_countsLines(n, params, id) ==
    LET images == Get(params, "images", <<>>)
        batch_size == Get(params, "batchSize", JInt(n))
        total == Len(images)
    IN  IF total = 0
        THEN [out |-> <<RespEv(n, EmptyResponse(id))>>, next |-> "lines", cur |-> NoReq]
        ELSE IF batch_size.t # "int"
        THEN [out |-> <<RespEv(n, ExceptionResponse("'float' object cannot be interpreted as an integer"))>>,
              next |-> "lines", cur |-> NoReq]
        ELSE IF batch_size.n = 0
        THEN [out |-> <<RespEv(n, ExceptionResponse("range() arg 3 must not be zero"))>>,
              next |-> "lines", cur |-> NoReq]
        ELSE [out |-> <<>>, next |-> "loop",
              cur |-> [request_id |-> id, images |-> images,
                       batch_size |-> batch_size.n, total |-> total]]

StartDescribe(n, params, id) ==
    LET images == Get(params, "images", <<>>)
        batch_size == Get(params, "batchSize", JInt(BATCH_SIZE))
        total == Len(images)
    IN  IF total = 0
        THEN [out |-> <<RespEv(n, EmptyResponse(id))>>, next |-> "lines", cur |-> NoReq]
        ELSE IF batch_size.t # "int"
        THEN [out |-> <<RespEv(n, ExceptionResponse("'float' object cannot be interpreted as an integer"))>>,
              next |-> "lines", cur |-> NoReq]
        ELSE IF batch_size.n = 0
        THEN [out |-> <<RespEv(n, ExceptionResponse("range() arg 3 must not be zero"))>>,
              next |-> "lines", cur |-> NoReq]
        ELSE [out |-> <<>>, next |-> "loop",
              cur |-> [request_id |-> id, images |-> images,
                       batch_size |-> batch_size.n, total |-> total]]

HandleRequest(n, line) ==
    LET j == JsonLoads(line)
    IN  IF ~j.ok
        THEN [out |-> <<RespEv(n, InvalidJsonResponse)>>,
              next |-> "lines", cur |-> NoReq]
        ELSE IF j.t # "object"
        THEN [out |-> <<RespEv(n, ExceptionResponse("'int' object has no attribute 'get'"))>>,
              next |-> "lines", cur |-> NoReq]
        ELSE LET request_id == Get(j.v, "id", 0)
                 method == Get(j.v, "method", "")
                 params == Get(j.v, "params", <<>>)
             IN  IF method = "describe_images" THEN StartDescribe(n, params, request_id)
                 ELSE IF method = "shutdown"
                 THEN [out |-> <<RespEv(n, ShutdownResponse(request_id))>>,
                       next |-> "shutdown", cur |-> NoReq]
                 ELSE [out |-> <<RespEv(n, UnknownResponse(request_id, method))>>,
                       next |-> "lines", cur |-> NoReq]

\* ------------------------------------------------------- the daemon
Running == [by |-> "none"]
Exited_zero(by, code, unlink) == [by |-> by, code |-> 0, unlink |-> unlink]

\* The process ended with exit code `code`; `unlink` tells what its last
\* cleanup() did about the socket file.
Exited(by, code, unlink) == [by |-> by, code |-> code, unlink |-> unlink]

\* cleanup() with or without a file at SOCKET_PATH: the file is unlinked if
\* it exists; an unlink that raises is logged and the file stays.
Cleanup(file) ==
    IF file
    THEN {[file |-> FALSE, unlink |-> "ok"], [file |-> TRUE, unlink |-> "failed"]}
    ELSE {[file |-> FALSE, unlink |-> "none"]}

\* main has installed its signal handlers; a stale socket file may exist.
Init ==
    /\ pc = "cleanup"
    /\ exit = Running
    /\ engine = FALSE
    /\ stdout = <<>>
    /\ listening = FALSE
    /\ sockFile \in BOOLEAN
    /\ pending = 0
    /\ open = 0
    /\ inflight = 0
    /\ stream = <<>>
    /\ rpos = 0
    /\ buffer = <<>>
    /\ lineNo = 0
    /\ cur = NoReq
    /\ batch_idx = 0
    /\ log = <<>>
    /\ endReason = "none"
    /\ content_text = <<>>
    /\ results = <<>>
    /\ peer = "none"
    /\ logged = {}
    /\ ocrText = <<>>
    /\ indicators = <<>>
    /\ call = NoCall
    /\ single = NoResult
    /\ daemons = NoDaemons
    /\ path = NoFile

\* main: cleanup() removes any existing socket file.
StartCleanup ==
    /\ UNCHANGED <<parser, observer, hosts>>
    /\ UNCHANGED peer
    /\ logged' = {}
    /\ pc = "cleanup"
    /\ \E c \in Cleanup(sockFile) : sockFile' = c.file
    /\ pc' = "load"
    /\ UNCHANGED <<exit, engine, stdout, listening, pending, open, inflight>>
    /\ UNCHANGED conn

\* main: load_model() returns the engine, or logs the failure and calls
\* sys.exit(1).
LoadModel ==
    /\ UNCHANGED <<parser, observer, hosts>>
    /\ UNCHANGED peer
    /\ logged' = {}
    /\ pc = "load"
    /\ \E ok \in BOOLEAN :
          IF ok
          THEN engine' = TRUE /\ pc' = "bind" /\ exit' = exit
          ELSE engine' = engine /\ pc' = "exited" /\ exit' = Exited("load_model", 1, "none")
    /\ UNCHANGED <<stdout, listening, sockFile, pending, open, inflight>>
    /\ UNCHANGED conn

\* main: the socket is created, bound to SOCKET_PATH and listens.  bind
\* creates the socket file; it raises if a file is there already and may
\* raise for other reasons; the exception is not caught and ends main.
Bind ==
    /\ UNCHANGED <<parser, observer, hosts>>
    /\ UNCHANGED peer
    /\ logged' = {}
    /\ pc = "bind"
    /\ \E ok \in BOOLEAN :
          /\ ok => ~sockFile
          /\ IF ok
             THEN listening' = TRUE /\ sockFile' = TRUE /\ pc' = "ready" /\ exit' = exit
             ELSE /\ listening' = listening /\ sockFile' = sockFile
                  /\ pc' = "exited" /\ exit' = Exited("bind", 1, "none")
    /\ UNCHANGED <<engine, stdout, pending, open, inflight>>
    /\ UNCHANGED conn

\* {"status": "ready", "model": MODEL_NAME}
ReadyLine == [status |-> "ready", model |-> "MODEL_NAME"]

Ready_beforeListen ==
    /\ UNCHANGED <<parser, observer, hosts>>
    /\ UNCHANGED peer
    /\ logged' = {}
    /\ pc = "bind"
    /\ stdout = <<>>
    /\ stdout' = Append(stdout, ReadyLine)
    /\ UNCHANGED <<pc, exit, engine, listening, sockFile, pending, open, inflight>>
    /\ UNCHANGED conn

\* main: the readiness line is printed and the accept loop is entered.
Ready ==
    /\ UNCHANGED <<parser, observer, hosts>>
    /\ UNCHANGED peer
    /\ logged' = {}
    /\ pc = "ready"
    /\ stdout' = Append(stdout, ReadyLine)
    /\ pc' = "accept"
    /\ UNCHANGED <<exit, engine, listening, sockFile, pending, open, inflight>>
    /\ UNCHANGED conn

\* A client connects to the socket file and waits in the listen queue.
Connect ==
    /\ UNCHANGED <<parser, observer, hosts>>
    /\ UNCHANGED <<peer, logged>>
    /\ listening /\ sockFile
    /\ pending < BACKLOG
    /\ pending' = pending + 1
    /\ UNCHANGED <<pc, open, inflight>>
    /\ UNCHANGED proc
    /\ UNCHANGED conn

AtAccept_whileServing == pc \in {"accept", "recv"}

AtAccept_afterExit == pc \in {"accept", "exited"}

\* The daemon is blocked in server_socket.accept().
AtAccept == pc = "accept"

\* server_socket.accept() returns the connection of a waiting client;
\* buffer = "".
Accept ==
    /\ UNCHANGED <<parser, observer, hosts>>
    /\ peer' = "here"
    /\ logged' = {}
    /\ AtAccept
    /\ pending > 0
    /\ pending' = pending - 1
    /\ open' = open + 1
    /\ stream' \in Streams(MaxBytes, MaxImages, 1)
    /\ rpos' = 0
    /\ buffer' = <<>>
    /\ lineNo' = 0
    /\ log' = <<>>
    /\ endReason' = "none"
    /\ pc' = "recv"
    /\ UNCHANGED <<inflight, cur, batch_idx>>
    /\ UNCHANGED proc

\* server_socket.accept() raises: "Accept error" is logged and the loop
\* goes round.
AcceptFail ==
    /\ UNCHANGED <<parser, observer, hosts>>
    /\ AtAccept
    /\ listening
    /\ logged' = {"Accept error"}
    /\ UNCHANGED <<pc, pending, open, inflight, peer>>
    /\ UNCHANGED proc
    /\ UNCHANGED conn

\* The client closes its end of the connection, having sent its bytes,
\* while the daemon reads or works for it.
Disconnect ==
    /\ UNCHANGED <<parser, observer, hosts>>
    /\ open = 1
    /\ pc \in {"recv", "lines", "loop", "infer"}
    /\ peer = "here"
    /\ peer' = "gone"
    /\ UNCHANGED <<pc, pending, open, inflight, logged>>
    /\ UNCHANGED proc
    /\ UNCHANGED conn

\* conn.recv(65536) returns the next k bytes; they are decoded and appended.
RecvData ==
    /\ UNCHANGED <<parser, observer, hosts>>
    /\ UNCHANGED peer
    /\ pc = "recv"
    /\ \E k \in 1..(Len(stream) - rpos) :
          LET d == Utf8Decode(SubSeq(stream, rpos + 1, rpos + k))
          IN  /\ rpos' = rpos + k
              /\ IF d.ok
                 THEN /\ buffer' = buffer \o d.text
                      /\ pc' = "lines"
                      /\ endReason' = endReason
                      /\ logged' = {}
                 ELSE /\ buffer' = buffer
                      /\ pc' = "close"
                      /\ endReason' = "error"
                      /\ logged' = {"Connection error"}
    /\ UNCHANGED <<pending, open, inflight, stream, lineNo, cur, batch_idx, log>>
    /\ UNCHANGED proc

RecvEof_flush ==
    /\ UNCHANGED <<parser, observer, hosts>>
    /\ UNCHANGED peer
    /\ logged' = {}
    /\ pc = "recv"
    /\ rpos = Len(stream)
    /\ pc' = "close"
    /\ endReason' = "eof"
    /\ IF Strip(buffer) = <<>>
       THEN UNCHANGED <<buffer, lineNo, log>>
       ELSE /\ buffer' = <<>>
            /\ lineNo' = lineNo + 1
            /\ log' = log \o <<LineEv(lineNo + 1, buffer)>> \o HandleRequest(lineNo + 1, buffer).out
    /\ UNCHANGED <<pending, open, inflight, stream, rpos, cur, batch_idx>>
    /\ UNCHANGED proc

\* conn.recv returns b"": the client has sent everything and closed.
RecvEof ==
    /\ UNCHANGED <<parser, observer, hosts>>
    /\ UNCHANGED peer
    /\ logged' = {}
    /\ pc = "recv"
    /\ rpos = Len(stream)
    /\ pc' = "close"
    /\ endReason' = "eof"
    /\ UNCHANGED <<pending, open, inflight, stream, rpos, buffer, lineNo,
                   cur, batch_idx, log>>
    /\ UNCHANGED proc

RecvReset_fatal ==
    /\ UNCHANGED <<parser, observer, hosts>>
    /\ UNCHANGED peer
    /\ logged' = {}
    /\ pc = "recv"
    /\ pc' = "exited"
    /\ endReason' = "reset"
    /\ exit' = Exited("reset", 1, "none")
    /\ UNCHANGED <<pending, open, inflight, stream, rpos, buffer, lineNo,
                   cur, batch_idx, log>>
    /\ UNCHANGED <<engine, stdout, listening, sockFile>>

\* conn.recv raises ConnectionResetError.
RecvReset ==
    /\ UNCHANGED <<parser, observer, hosts>>
    /\ UNCHANGED peer
    /\ logged' = {}
    /\ pc = "recv"
    /\ pc' = "close"
    /\ endReason' = "reset"
    /\ UNCHANGED <<pending, open, inflight, stream, rpos, buffer, lineNo,
                   cur, batch_idx, log>>
    /\ UNCHANGED proc

IsBlank_emptyOnly(line) == line = <<>>

\* `if line.strip()` fails: the line is empty or whitespace only.
IsBlank(line) == Strip(line) = <<>>

ReadyForLine_whileHandling == pc \in {"lines", "loop"}

\* The daemon is at the test of `while "\n" in buffer`.
ReadyForLine == pc = "lines"

\* One turn of `while "\n" in buffer`: split off a line and, unless it is
\* blank, hand it to handle_request, which runs up to its first batch or,
\* for shutdown, up to its call of cleanup.
NextLine ==
    /\ UNCHANGED <<parser, observer, hosts>>
    /\ UNCHANGED peer
    /\ logged' = SendLog(/\ HasNewline(buffer)
                          /\ ~IsBlank(SplitLine(buffer).line)
                          /\ HandleRequest(lineNo + 1, SplitLine(buffer).line).out # <<>>)
    /\ ReadyForLine
    /\ IF ~HasNewline(buffer)
       THEN /\ pc' = "recv"
            /\ UNCHANGED <<buffer, lineNo, cur, batch_idx, log>>
       ELSE LET s == SplitLine(buffer)
            IN  /\ buffer' = s.rest
                /\ IF IsBlank(s.line)
                   THEN /\ pc' = "lines"
                        /\ UNCHANGED <<lineNo, cur, batch_idx, log>>
                   ELSE LET h == HandleRequest(lineNo + 1, s.line)
                        IN  /\ lineNo' = lineNo + 1
                            /\ log' = log \o <<LineEv(lineNo + 1, s.line)>> \o h.out
                            /\ pc' = h.next
                            /\ cur' = h.cur
                            /\ batch_idx' = 0
    /\ UNCHANGED <<pending, open, inflight, stream, rpos, endReason>>
    /\ UNCHANGED proc

\* The head of `for batch_idx in range(0, total, batch_size)`: either the next
\* batch goes to the inference engine, or the loop is over and done is sent.
BatchLoop ==
    /\ UNCHANGED <<parser, observer, hosts>>
    /\ UNCHANGED peer
    /\ logged' = SendLog(~InRange(batch_idx, cur.total, cur.batch_size))
    /\ pc = "loop"
    /\ IF InRange(batch_idx, cur.total, cur.batch_size)
       THEN /\ log' = log \o <<CallEv(lineNo, Slice(cur.images, batch_idx,
                                                    batch_idx + cur.batch_size))>>
            /\ pc' = "infer"
            /\ inflight' = inflight + 1
            /\ UNCHANGED <<cur, batch_idx>>
       ELSE /\ log' = log \o <<RespEv(lineNo, DoneResponse(cur.request_id))>>
            /\ pc' = "lines"
            /\ cur' = NoReq
            /\ batch_idx' = 0
            /\ inflight' = inflight
    /\ UNCHANGED <<pending, open, stream, rpos, buffer, lineNo, endReason>>
    /\ UNCHANGED proc

BatchEnd_abandons ==
    /\ UNCHANGED <<parser, observer, hosts>>
    /\ UNCHANGED peer
    /\ logged' = SendLog(TRUE)
    /\ pc = "infer"
    /\ \E raised \in BOOLEAN :
          LET batch == Slice(cur.images, batch_idx, batch_idx + cur.batch_size)
              r == IF raised
                   THEN ErrorResponse(cur.request_id, batch_idx, cur.batch_size, batch, cur.total)
                   ELSE OkResponse(cur.request_id, batch_idx, cur.batch_size, batch, cur.total)
          IN  log' = log \o <<RetEv(lineNo, raised), RespEv(lineNo, r)>>
    /\ batch_idx' = batch_idx + cur.batch_size
    /\ inflight' = inflight - 1
    /\ pc' = IF peer = "gone" THEN "close" ELSE "loop"
    /\ UNCHANGED <<pending, open, stream, rpos, buffer, lineNo, cur, endReason>>
    /\ UNCHANGED proc

\* process_interleaved_batch returns or raises; the batch's Response is sent.
BatchEnd ==
    /\ UNCHANGED <<parser, observer, hosts>>
    /\ UNCHANGED peer
    /\ logged' = SendLog(TRUE)
    /\ pc = "infer"
    /\ \E raised \in BOOLEAN :
          LET batch == Slice(cur.images, batch_idx, batch_idx + cur.batch_size)
              r == IF raised
                   THEN ErrorResponse(cur.request_id, batch_idx, cur.batch_size, batch, cur.total)
                   ELSE OkResponse(cur.request_id, batch_idx, cur.batch_size, batch, cur.total)
          IN  log' = log \o <<RetEv(lineNo, raised), RespEv(lineNo, r)>>
    /\ batch_idx' = batch_idx + cur.batch_size
    /\ inflight' = inflight - 1
    /\ pc' = "loop"
    /\ UNCHANGED <<pending, open, stream, rpos, buffer, lineNo, cur, endReason>>
    /\ UNCHANGED proc

ConnClose_unloads ==
    /\ UNCHANGED <<parser, observer, hosts>>
    /\ peer' = "none"
    /\ logged' = {}
    /\ pc = "close"
    /\ pc' = "accept"
    /\ open' = open - 1
    /\ stream' = <<>>
    /\ rpos' = 0
    /\ buffer' = <<>>
    /\ lineNo' = 0
    /\ log' = <<>>
    /\ endReason' = "none"
    /\ engine' = FALSE
    /\ UNCHANGED <<pending, inflight, cur, batch_idx>>
    /\ UNCHANGED <<exit, stdout, listening, sockFile>>

\* conn.close(): the connection and everything about it are gone.
ConnClose ==
    /\ UNCHANGED <<parser, observer, hosts>>
    /\ peer' = "none"
    /\ logged' = {}
    /\ pc = "close"
    /\ pc' = "accept"
    /\ open' = open - 1
    /\ stream' = <<>>
    /\ rpos' = 0
    /\ buffer' = <<>>
    /\ lineNo' = 0
    /\ log' = <<>>
    /\ endReason' = "none"
    /\ UNCHANGED <<pending, inflight, cur, batch_idx>>
    /\ UNCHANGED proc

\* handle_request, method shutdown, after its Response: cleanup() closes the
\* listening socket and removes the socket file, sys.exit(0) ends the process.
ShutdownExit ==
    /\ UNCHANGED <<parser, observer, hosts>>
    /\ UNCHANGED peer
    /\ logged' = {}
    /\ pc = "shutdown"
    /\ listening' = FALSE
    /\ \E c \in Cleanup(sockFile) :
          sockFile' = c.file /\ exit' = Exited("shutdown", 0, c.unlink)
    /\ pc' = "exited"
    /\ UNCHANGED <<engine, stdout, pending, open, inflight>>
    /\ UNCHANGED conn

\* SIGTERM or SIGINT arrives: signal_handler runs cleanup() and sys.exit(0),
\* wherever main is.  SystemExit passes every `except Exception`.  What the
\* process was doing is dropped with it.
Signal ==
    /\ UNCHANGED <<parser, observer, hosts>>
    /\ peer' = "none"
    /\ logged' = {}
    /\ pc # "exited"
    /\ listening' = FALSE
    /\ \E c \in Cleanup(sockFile) :
          sockFile' = c.file /\ exit' = Exited("signal", 0, c.unlink)
    /\ pc' = "exited"
    /\ open' = 0
    /\ inflight' = 0
    /\ stream' = <<>>
    /\ rpos' = 0
    /\ buffer' = <<>>
    /\ lineNo' = 0
    /\ cur' = NoReq
    /\ batch_idx' = 0
    /\ log' = <<>>
    /\ endReason' = "none"
    /\ UNCHANGED <<engine, stdout, pending>>

Next ==
    \/ StartCleanup
    \/ LoadModel
    \/ Bind
    \/ Ready
    \/ Connect
    \/ Accept
    \/ AcceptFail
    \/ Disconnect
    \/ RecvData
    \/ RecvEof
    \/ RecvReset
    \/ NextLine
    \/ BatchLoop
    \/ BatchEnd
    \/ ConnClose
    \/ ShutdownExit
    \/ Signal

Spec == Init /\ [][Next]_vars

\* ------------------------------------------------------- the daemon left to run
\* LiveSpec is the daemon with no signal sent to it.  main goes on whenever
\* it can: startup runs through, accept returns when a client waits, recv
\* returns the bytes the client sent and then the end of the stream when the
\* client has closed, every line is handled, every inference call returns or
\* raises, and a connection whose read loop ended is closed.  Clients
\* connect, go away or reset as they like.
LiveNext ==
    \/ StartCleanup
    \/ LoadModel
    \/ Bind
    \/ Ready
    \/ Connect
    \/ Accept
    \/ AcceptFail
    \/ Disconnect
    \/ RecvData
    \/ RecvEof
    \/ RecvReset
    \/ NextLine
    \/ BatchLoop
    \/ BatchEnd
    \/ ConnClose
    \/ ShutdownExit

Fairness ==
    /\ WF_vars(StartCleanup)
    /\ WF_vars(LoadModel)
    /\ WF_vars(Bind)
    /\ WF_vars(Ready)
    /\ WF_vars(Accept)
    /\ WF_vars(RecvData)
    /\ WF_vars(RecvEof)
    /\ WF_vars(NextLine)
    /\ WF_vars(BatchLoop)
    /\ WF_vars(BatchEnd)
    /\ WF_vars(ConnClose)
    /\ WF_vars(ShutdownExit)

LiveSpec == Init /\ [][LiveNext]_vars /\ Fairness

\* ------------------------------------------------------- generated text
\* The text the engine generates is a sequence of tokens: the label
\* "Frame n:", the four field labels, "|", "[", "]", ",", a word, and Sp for
\* a whitespace character.
FrameLabel(n) == [k |-> "frame", n |-> n]
DescriptionL == [k |-> "description:"]
ActivityL == [k |-> "activity:"]
AppsL == [k |-> "apps:"]
TopicsL == [k |-> "topics:"]
Bar == [k |-> "|"]
LB == [k |-> "["]
RB == [k |-> "]"]
Comma == [k |-> ","]
\* Word w of the entry written for frame n.
Word(n, w) == [k |-> "word", n |-> n, w |-> w]

\* The field labels in the order of the pattern.
FieldLabels == <<"description:", "activity:", "apps:", "topics:">>

\* The entry written for frame n, by shape: well-formed with a bracketed or
\* a bare apps list, a field missing, the first two fields in the other
\* order, the label "Frame n:" missing, or nothing at all.
Shapes == {"ok", "bare", "noActivity", "noTopics", "swapped", "noLabel", "absent"}

DescriptionField(n) == <<DescriptionL, Sp, Word(n, "d"), Sp>>
ActivityField(n) == <<ActivityL, Sp, Word(n, "a"), Sp>>
AppsField(n) == <<AppsL, Sp, LB, Word(n, "p"), RB, Sp>>
AppsBare(n) == <<AppsL, Sp, Word(n, "p"), Comma, Sp, Word(n, "q"), Sp>>
TopicsField(n) == <<TopicsL, Sp, Word(n, "t"), Sp>>

Entry(n, shape) ==
    LET l == <<FrameLabel(n), Sp>>
        d == DescriptionField(n)
        a == ActivityField(n)
        p == AppsField(n)
        t == TopicsField(n)
        b == <<Bar, Sp>>
    IN  CASE shape = "ok" -> l \o d \o b \o a \o b \o p \o b \o t
          [] shape = "bare" -> l \o d \o b \o a \o b \o AppsBare(n) \o b \o t
          [] shape = "noActivity" -> l \o d \o b \o p \o b \o t
          [] shape = "noTopics" -> l \o d \o b \o a \o b \o p
          [] shape = "swapped" -> l \o a \o b \o d \o b \o p \o b \o t
          [] shape = "noLabel" -> d \o b \o a \o b \o p \o b \o t
          [] shape = "absent" -> <<>>

RECURSIVE Concat(_, _)
Concat(shapes, n) ==
    IF n > Len(shapes) THEN <<>> ELSE Entry(n, shapes[n]) \o Concat(shapes, n + 1)

\* The texts the engine may generate for a batch of m frames.
Texts(m) == {Concat(shapes, 1) : shapes \in [1..m -> Shapes]}

\* The ways a list of two items a and b is written: bracketed or bare, with
\* an empty item, with whitespace inside the brackets, with one bracket
\* missing, or nothing but a comma.
ListForms(a, b) ==
    {<<LB, a, RB>>,
     <<LB, a, Comma, Sp, b, RB>>,
     <<a, Comma, b>>,
     <<LB, a, Comma, Sp, Comma, Sp, b, RB>>,
     <<LB, Sp, a, Sp, Comma, b, Sp, RB>>,
     <<LB, a, Comma, Sp, b>>,
     <<a, RB>>,
     <<Comma>>}

\* The ways the description is written: one word, or two words after more
\* whitespace.
DescriptionForms == {<<Word(1, "d")>>, <<Sp, Word(1, "d"), Sp, Word(1, "e")>>}

\* The entry of frame 1 alone, with every form of its description and lists.
EntryTexts ==
    {<<FrameLabel(1), Sp, DescriptionL, Sp>> \o d \o <<Sp, Bar, Sp>>
        \o ActivityField(1) \o <<Bar, Sp, AppsL, Sp>> \o l1 \o <<Sp, Bar, Sp, TopicsL, Sp>> \o l2 \o <<Sp>> :
        d \in DescriptionForms,
        l1 \in ListForms(Word(1, "p"), Word(1, "q")),
        l2 \in ListForms(Word(1, "t"), Word(1, "u"))}

\* What generate() may return for a batch of m frames.
Outputs(m) == Texts(m) \cup (IF m = 1 THEN EntryTexts ELSE {})

\* ------------------------------------------------------- output parser
\* The pattern of parse_interleaved_output,
\*   Frame n:\s*description:\s*(.+?)\s*\|\s*activity:\s*(.+?)\s*\|\s*apps:\s*
\*   (\[.+?\]|[^|]+)\s*\|\s*topics:\s*(.+?)(?=Frame \d+:|$)
\* under re.DOTALL, matched on tokens the way the backtracking matcher does:
\* a greedy \s* gives whitespace back one character at a time, a lazy group
\* grows one token at a time, and the first complete match wins.
Kind(t, i) == IF i \in 1..Len(t) THEN t[i].k ELSE "end"

\* \s* in front of a token that is no whitespace
RECURSIVE SkipWs(_, _)
SkipWs(t, i) == IF Kind(t, i) = "sp" THEN SkipWs(t, i + 1) ELSE i

NoMatch == [ok |-> FALSE, groups |-> <<>>]

\* Tokens g..h are a value of the group: (.+?), \[.+?\] or [^|]+
GroupOk(t, alt, g, h) ==
    CASE alt = "any" -> TRUE
      [] alt = "bracket" -> Kind(t, g) = "[" /\ h >= g + 2 /\ Kind(t, h) = "]"
      [] alt = "bare" -> \A x \in g..h : Kind(t, x) # "|"

RECURSIVE Field(_, _, _)
RECURSIVE TryW(_, _, _, _)
RECURSIVE TryH(_, _, _, _, _)
RECURSIVE After(_, _, _)

\* What follows group j from position p: \s*\|\s*<next label> and the next
\* field, or, after topics, the lookahead (?=Frame \d+:|$).
After(t, j, p) ==
    IF j = 4
    THEN IF Kind(t, p) \in {"frame", "end"} THEN [ok |-> TRUE, groups |-> <<>>] ELSE NoMatch
    ELSE LET b == SkipWs(t, p)
             l == SkipWs(t, b + 1)
         IN  IF Kind(t, b) = "|" /\ Kind(t, l) = FieldLabels[j + 1]
             THEN Field(t, j + 1, l + 1)
             ELSE NoMatch

\* Group j starts at g: its end h is tried from g upwards.  ([^|]+ is
\* greedy, but every end it can take leaves the same text once stripped.)
TryH(t, j, alt, g, h) ==
    IF h > Len(t) THEN NoMatch
    ELSE LET r == IF GroupOk(t, alt, g, h) THEN After(t, j, h + 1) ELSE NoMatch
         IN  IF r.ok THEN [ok |-> TRUE, groups |-> <<SubSeq(t, g, h)>> \o r.groups]
             ELSE TryH(t, j, alt, g, h + 1)

\* \s* after label j has taken w characters; in apps the bracketed
\* alternative is tried before the bare one.
TryW(t, j, i, w) ==
    IF w < 0 THEN NoMatch
    ELSE LET g == i + w
             r == IF j = 3
                  THEN LET b == TryH(t, j, "bracket", g, g)
                       IN  IF b.ok THEN b ELSE TryH(t, j, "bare", g, g)
                  ELSE TryH(t, j, "any", g, g)
         IN  IF r.ok THEN r ELSE TryW(t, j, i, w - 1)

\* <label j>\s*<group j>... from position i, right after label j
Field(t, j, i) == TryW(t, j, i, SkipWs(t, i) - i)

\* The pattern from the label "Frame n:" at position i.
MatchAt(t, i) ==
    LET d == SkipWs(t, i + 1)
    IN  IF Kind(t, d) = "description:" THEN Field(t, 1, d + 1) ELSE NoMatch

\* re.search(pattern, text, re.DOTALL) from position i on
RECURSIVE SearchFrom(_, _, _)
SearchFrom(t, n, i) ==
    IF i > Len(t) THEN NoMatch
    ELSE IF t[i] = FrameLabel(n) /\ MatchAt(t, i).ok THEN MatchAt(t, i)
    ELSE SearchFrom(t, n, i + 1)

Unbracket_none(s) == s

\* re.sub(r"^\[|\]$", "", s)
Unbracket(s) ==
    LET a == IF s # <<>> /\ Head(s).k = "[" THEN Tail(s) ELSE s
    IN  IF a # <<>> /\ a[Len(a)].k = "]" THEN SubSeq(a, 1, Len(a) - 1) ELSE a

\* [x.strip() for x in s.split(",") if x.strip()], item `acc` being read
RECURSIVE Items(_, _)
Items(s, acc) ==
    LET item == IF Strip(acc) = <<>> THEN <<>> ELSE <<Strip(acc)>>
    IN  IF s = <<>> THEN item
        ELSE IF Head(s).k = "," THEN item \o Items(Tail(s), <<>>)
        ELSE Items(Tail(s), Append(acc, Head(s)))

\* The list of an apps or topics group.
CommaList(group) == Items(Unbracket(Strip(group)), <<>>)

\* frame.get("index", frame_num - 1)
IndexOf(frame, frame_num) == Get(frame, "index", frame_num - 1)

FailedToParse(frame_num) == <<[k |-> "Failed to parse Frame", n |-> frame_num]>>

Unknown == <<[k |-> "unknown"]>>

Parsed(frame, frame_num, groups) ==
    [index |-> IndexOf(frame, frame_num),
     timestamp |-> frame.timestamp,
     imagePath |-> frame.imagePath,
     description |-> Strip(groups[1]),
     activity |-> Strip(groups[2]),
     apps |-> CommaList(groups[3]),
     topics |-> CommaList(groups[4])]

Placeholder(frame, frame_num, text) ==
    [index |-> IndexOf(frame, frame_num),
     timestamp |-> frame.timestamp,
     imagePath |-> frame.imagePath,
     description |-> FailedToParse(frame_num),
     activity |-> Unknown,
     apps |-> <<>>,
     topics |-> <<>>,
     raw_response |-> text]

parse_interleaved_output_reversed(text, batch) ==
    [frame_num \in 1..Len(batch) |->
        LET frame == batch[Len(batch) + 1 - frame_num]
            match == SearchFrom(text, frame_num, 1)
        IN  IF match.ok THEN Parsed(frame, frame_num, match.groups)
            ELSE Placeholder(frame, frame_num, text)]

parse_interleaved_output_usesLoopIndex(text, batch) ==
    [frame_num \in 1..Len(batch) |->
        LET frame == batch[frame_num]
            match == SearchFrom(text, frame_num, 1)
            r == IF match.ok THEN Parsed(frame, frame_num, match.groups)
                 ELSE Placeholder(frame, frame_num, text)
        IN  [r EXCEPT !.index = batch_idx + frame_num - 1]]

parse_interleaved_output_onePass(text, batch) ==
    [frame_num \in 1..Len(batch) |->
        LET frame == batch[frame_num]
            match == SearchFrom(text, frame_num, 1)
        IN  IF \A k \in 1..frame_num : SearchFrom(text, k, 1).ok
            THEN Parsed(frame, frame_num, match.groups)
            ELSE Placeholder(frame, frame_num, text)]

parse_interleaved_output(text, batch) ==
    [frame_num \in 1..Len(batch) |->
        LET frame == batch[frame_num]
            match == SearchFrom(text, frame_num, 1)
        IN  IF match.ok THEN Parsed(frame, frame_num, match.groups)
            ELSE Placeholder(frame, frame_num, text)]

\* ------------------------------------------------------- single-frame parser
\* The pattern of parse_vlm_response,
\*   ^description:\s*(.+?)\s*\|\s*activity:\s*(.+?)\s*\|\s*apps:\s*
\*   (\[.+?\]|[^|]+)\s*\|\s*topics:\s*(.+)$
\* under re.DOTALL with re.match: the text starts with the description
\* label, the first three groups are those of the multi-frame pattern, and
\* the topics group is greedy and runs to the end of the text.
ErrorL == [k |-> "Error:"]

RECURSIVE FieldV(_, _, _)
RECURSIVE TryWV(_, _, _, _)
RECURSIVE TryHV(_, _, _, _, _)
RECURSIVE AfterV(_, _, _)

\* topics:\s*(.+)$ from position i, right after the label: \s* gives its
\* last character back when nothing else is left for the group.
TopicsToEnd(t, i) ==
    IF i > Len(t) THEN NoMatch
    ELSE [ok |-> TRUE, groups |-> <<SubSeq(t, Min(SkipWs(t, i), Len(t)), Len(t))>>]

\* What follows group j from position p: \s*\|\s*<next label> and the next
\* field.
AfterV(t, j, p) ==
    LET b == SkipWs(t, p)
        l == SkipWs(t, b + 1)
    IN  IF Kind(t, b) = "|" /\ Kind(t, l) = FieldLabels[j + 1]
        THEN IF j = 3 THEN TopicsToEnd(t, l + 1) ELSE FieldV(t, j + 1, l + 1)
        ELSE NoMatch

TryHV(t, j, alt, g, h) ==
    IF h > Len(t) THEN NoMatch
    ELSE LET r == IF GroupOk(t, alt, g, h) THEN AfterV(t, j, h + 1) ELSE NoMatch
         IN  IF r.ok THEN [ok |-> TRUE, groups |-> <<SubSeq(t, g, h)>> \o r.groups]
             ELSE TryHV(t, j, alt, g, h + 1)

TryWV(t, j, i, w) ==
    IF w < 0 THEN NoMatch
    ELSE LET g == i + w
             r == IF j = 3
                  THEN LET b == TryHV(t, j, "bracket", g, g)
                       IN  IF b.ok THEN b ELSE TryHV(t, j, "bare", g, g)
                  ELSE TryHV(t, j, "any", g, g)
         IN  IF r.ok THEN r ELSE TryWV(t, j, i, w - 1)

FieldV(t, j, i) == TryWV(t, j, i, SkipWs(t, i) - i)

\* re.match(pattern, content, re.DOTALL)
MatchStart(t) == IF Kind(t, 1) = "description:" THEN FieldV(t, 1, 2) ELSE NoMatch

\* The items of a list, each once.
ItemSet(list) == {list[i] : i \in 1..Len(list)}

\* list(set(items)): each item once, in the order the set iterates, which
\* the hash seed of the process decides.
ListOfSet(items) ==
    {s \in [1..Cardinality(ItemSet(items)) -> ItemSet(items)] :
        \A i, j \in DOMAIN s : i # j => s[i] # s[j]}

\* What parse_vlm_response(content) may return.
parse_vlm_response(content) ==
    LET result == [description |-> <<>>, activity |-> Unknown, apps |-> <<>>, topics |-> <<>>]
        match == MatchStart(content)
    IN  IF content = <<>> \/ Kind(Strip(content), 1) = "Error:" THEN {result}
        ELSE IF match.ok
        THEN {[description |-> Strip(match.groups[1]),
               activity |-> Strip(match.groups[2]),
               apps |-> apps,
               topics |-> topics] :
                 apps \in ListOfSet(CommaList(match.groups[3])),
                 topics \in ListOfSet(CommaList(match.groups[4]))}
        ELSE {[result EXCEPT !.description = Strip(content)]}

\* ------------------------------------------------------- interleaved prompt
TEMPERATURE == "0.3"

\* Where load_vlm_prompt takes the instructions from: prompts/vlm-batch.md,
\* or its inline text when the file is missing or cannot be read.
PromptSources == {"vlm-batch.md", "inline"}

\* load_vlm_prompt(batch_size): the instructions with the frame count put in.
load_vlm_prompt(batch_size, source) == [prompt |-> source, FRAME_COUNT |-> batch_size]

TextPart(text) == [type |-> "text", text |-> text]
ImagePart == [type |-> "image"]

FrameText_absolute(frame_num, timestamp) ==
    [label |-> "Frame", frame_num |-> batch_idx + frame_num, timestamp |-> timestamp]

\* f"Frame {frame_num} (timestamp: {timestamp}s):"
FrameText(frame_num, timestamp) ==
    [label |-> "Frame", frame_num |-> frame_num, timestamp |-> timestamp]

\* content: a label and an image placeholder for each frame, then the
\* instructions.
InterleavedContent(batch, source) ==
    [i \in 1..(2 * Len(batch) + 1) |->
        IF i = 2 * Len(batch) + 1 THEN TextPart(load_vlm_prompt(Len(batch), source))
        ELSE IF i % 2 = 1
             THEN LET idx == (i - 1) \div 2
                      frame_num == idx + 1
                      timestamp == Get(batch[idx + 1], "timestamp", "unknown")
                  IN  TextPart(FrameText(frame_num, timestamp))
             ELSE ImagePart]

\* get_chat_template(processor_obj, messages, add_generation_prompt=True)
get_chat_template(messages) == [messages |-> messages, add_generation_prompt |-> TRUE]

\* The arguments generate is called with.
GenerateCall(batch, source) ==
    [prompt |-> get_chat_template(<<[role |-> "user", content |-> InterleavedContent(batch, source)]>>),
     image |-> [i \in 1..Len(batch) |-> batch[i].imagePath],
     temperature |-> TEMPERATURE,
     max_tokens |-> "MAX_TOKENS",
     verbose |-> "VERBOSE"]

\* ------------------------------------------------------- batches through the parser
\* ParserSpec follows one describe_images request through its batch loop
\* with the text the engine generates for each batch and the results
\* parse_interleaved_output makes of it.
MaxFrames == 3

\* Frame q of a request; its index member is optional.
InputFrame(q, hasIndex) ==
    [timestamp |-> q, imagePath |-> <<"frame", q>>]
    @@ (IF hasIndex THEN "index" :> (q - 1) ELSE <<>>)

\* The image lists drawn: a client writes the index of every frame or of none.
FrameLists ==
    {[q \in 1..n |-> InputFrame(q, hasIndex)] : n \in 1..MaxFrames, hasIndex \in BOOLEAN}

Requests ==
    {[request_id |-> 1, images |-> images, batch_size |-> b, total |-> Len(images)] :
        images \in FrameLists, b \in 1..MaxFrames}

\* batch = images[batch_idx : batch_idx + batch_size]
Batch == Slice(cur.images, batch_idx, batch_idx + cur.batch_size)

\* The daemon is serving a connection and handle_describe_images has
\* reached its batch loop.
ParserInit ==
    /\ pc = "loop"
    /\ exit = Running
    /\ engine = TRUE
    /\ stdout = <<ReadyLine>>
    /\ listening = TRUE
    /\ sockFile = TRUE
    /\ pending = 0
    /\ open = 1
    /\ inflight = 0
    /\ stream = <<>>
    /\ rpos = 0
    /\ buffer = <<>>
    /\ lineNo = 0
    /\ log = <<>>
    /\ endReason = "none"
    /\ cur \in Requests
    /\ batch_idx = 0
    /\ content_text = <<>>
    /\ results = <<>>
    /\ peer = "here"
    /\ logged = {}
    /\ ocrText = <<>>
    /\ indicators = <<>>
    /\ call = NoCall
    /\ single = NoResult
    /\ daemons = NoDaemons
    /\ path = NoFile

\* The prompt of the next batch is built and generate(...) returns its text.
Generate ==
    /\ UNCHANGED <<peer, logged, single>>
    /\ UNCHANGED observer
    /\ UNCHANGED hosts
    /\ \E source \in PromptSources : call' = GenerateCall(Batch, source)
    /\ pc = "loop"
    /\ InRange(batch_idx, cur.total, cur.batch_size)
    /\ content_text' \in Outputs(Len(Batch))
    /\ results' = <<>>
    /\ pc' = "infer"
    /\ UNCHANGED <<pending, open, inflight, stream, rpos, buffer, lineNo, cur, batch_idx, log, endReason>>
    /\ UNCHANGED proc

\* The text is parsed, the batch's Response goes out and the loop advances.
ParseBatch ==
    /\ UNCHANGED <<peer, logged, call, single>>
    /\ UNCHANGED observer
    /\ UNCHANGED hosts
    /\ pc = "infer"
    /\ results' = parse_interleaved_output(content_text, Batch)
    /\ batch_idx' = batch_idx + cur.batch_size
    /\ pc' = "loop"
    /\ UNCHANGED <<pending, open, inflight, stream, rpos, buffer, lineNo, cur, log, endReason>>
    /\ UNCHANGED content_text
    /\ UNCHANGED proc

ParserNext == Generate \/ ParseBatch

ParserSpec == ParserInit /\ [][ParserNext]_vars

\* ------------------------------------------------------- the two parsers side by side
\* VariantSpec hands one four-field content C to parse_vlm_response and the
\* text "Frame 1: " + C to parse_interleaved_output with a batch of one frame.
Prefix == <<FrameLabel(1), Sp>>

\* C of the text "Frame 1: " + C
Unframed(text) == SubSeq(text, Len(Prefix) + 1, Len(text))

\* Lists that name an item twice, or two items in the other order.
RepeatForms(a, b) ==
    {<<LB, a, Comma, Sp, a, RB>>,
     <<LB, a, Comma, Sp, b, Comma, Sp, a, RB>>,
     <<LB, b, Comma, Sp, a, RB>>}

\* The contents drawn: every well-formed entry of EntryTexts, entries with
\* repeated items, an entry after whitespace, an entry followed by the entry
\* of a second frame, entries with a field missing or out of order, an
\* engine error text, a bare word and the empty text.
VariantContents ==
    {Unframed(e) : e \in EntryTexts}
    \cup {DescriptionField(1) \o <<Bar, Sp>> \o ActivityField(1) \o <<Bar, Sp, AppsL, Sp>> \o l1
            \o <<Sp, Bar, Sp, TopicsL, Sp>> \o l2 :
            l1 \in RepeatForms(Word(1, "p"), Word(1, "q")),
            l2 \in RepeatForms(Word(1, "t"), Word(1, "u"))}
    \cup {Unframed(Entry(1, shape)) : shape \in Shapes \ {"noLabel", "absent"}}
    \cup {<<Sp>> \o Unframed(Entry(1, "ok")),
          Unframed(Entry(1, "ok")) \o Entry(2, "ok"),
          <<ErrorL, Sp, Word(1, "d")>>,
          <<Sp, ErrorL, Sp>> \o Unframed(Entry(1, "ok")),
          <<Word(1, "d")>>,
          <<>>}

VariantInit ==
    /\ pc = "variant"
    /\ content_text \in {Prefix \o c : c \in VariantContents}
    /\ results = <<>>
    /\ single = NoResult
    /\ call = NoCall
    /\ cur = [request_id |-> 1, images |-> <<InputFrame(1, TRUE)>>, batch_size |-> 1, total |-> 1]
    /\ batch_idx = 0
    /\ exit = Running
    /\ engine = FALSE
    /\ stdout = <<>>
    /\ listening = FALSE
    /\ sockFile = FALSE
    /\ pending = 0
    /\ open = 0
    /\ inflight = 0
    /\ stream = <<>>
    /\ rpos = 0
    /\ buffer = <<>>
    /\ lineNo = 0
    /\ log = <<>>
    /\ endReason = "none"
    /\ peer = "none"
    /\ logged = {}
    /\ ocrText = <<>>
    /\ indicators = <<>>
    /\ daemons = NoDaemons
    /\ path = NoFile

\* parse_vlm_response(C)
ParseSingle ==
    /\ pc = "variant"
    /\ single = NoResult
    /\ single' \in parse_vlm_response(Unframed(content_text))
    /\ UNCHANGED <<pc, content_text, results, call>>
    /\ UNCHANGED <<pending, open, inflight, peer, logged>>
    /\ UNCHANGED proc
    /\ UNCHANGED conn
    /\ UNCHANGED observer
    /\ UNCHANGED hosts

\* parse_interleaved_output("Frame 1: " + C, batch) with a batch of one frame
ParseFramed ==
    /\ pc = "variant"
    /\ results = <<>>
    /\ results' = parse_interleaved_output(content_text, Batch)
    /\ UNCHANGED <<pc, content_text, single, call>>
    /\ UNCHANGED <<pending, open, inflight, peer, logged>>
    /\ UNCHANGED proc
    /\ UNCHANGED conn
    /\ UNCHANGED observer
    /\ UNCHANGED hosts

VariantNext == ParseSingle \/ ParseFramed

VariantSpec == VariantInit /\ [][VariantNext]_vars

\* ------------------------------------------------------- two daemons, one path
\* HostSpec starts up to MaxDaemons daemon processes with the same
\* SOCKET_PATH.  Each runs main: cleanup(), load_model(), bind and listen,
\* the readiness line, the accept loop; a signal or a shutdown request stops
\* it through cleanup().  The file at the path is the socket of the process
\* that bound it, or a stale file left by a process that crashed.
MaxDaemons == 2

Daemons == 1..MaxDaemons

\* The file at SOCKET_PATH is the socket bound by process p; a stale file
\* is nobody's.
FileOf(p) == [exists |-> TRUE, owner |-> p]
Stale == FileOf(0)

\* Process p of HostSpec is at stage s.
At(p, s) == daemons[p].pc = s

\* Process p moves to stage s, ending as e if it ends.
Move(p, s, e) == daemons' = [daemons EXCEPT ![p] = [pc |-> s, exit |-> e]]

\* What cleanup() of process p leaves at the path: os.path.exists and
\* os.unlink look at the path, not at whose socket the file is.
Unlink(p, c) == IF c.file THEN path ELSE NoFile

HostInit ==
    /\ pc = "hosts"
    /\ daemons = [p \in Daemons |-> [pc |-> "off", exit |-> Running]]
    /\ path \in {NoFile, Stale}
    /\ exit = Running
    /\ engine = FALSE
    /\ stdout = <<>>
    /\ listening = FALSE
    /\ sockFile = FALSE
    /\ pending = 0
    /\ open = 0
    /\ inflight = 0
    /\ stream = <<>>
    /\ rpos = 0
    /\ buffer = <<>>
    /\ lineNo = 0
    /\ cur = NoReq
    /\ batch_idx = 0
    /\ log = <<>>
    /\ endReason = "none"
    /\ content_text = <<>>
    /\ results = <<>>
    /\ peer = "none"
    /\ logged = {}
    /\ ocrText = <<>>
    /\ indicators = <<>>
    /\ call = NoCall
    /\ single = NoResult

\* What HostSpec leaves alone.
HostFrame ==
    /\ UNCHANGED <<pc, pending, open, inflight, peer, logged>>
    /\ UNCHANGED proc
    /\ UNCHANGED conn
    /\ UNCHANGED parser
    /\ UNCHANGED observer

\* python3 scripts/mlx_bridge.py: process p starts main.
Launch(p) ==
    /\ At(p, "off")
    /\ Move(p, "cleanup", Running)
    /\ UNCHANGED path
    /\ HostFrame

\* main: cleanup() before anything else.
CleanupAtStart(p) ==
    /\ At(p, "cleanup")
    /\ \E c \in Cleanup(path.exists) : path' = Unlink(p, c)
    /\ Move(p, "load", Running)
    /\ HostFrame

\* main: load_model()
LoadModelOf(p) ==
    /\ At(p, "load")
    /\ \E ok \in BOOLEAN :
          IF ok THEN Move(p, "bind", Running)
          ELSE Move(p, "exited", Exited("load_model", 1, "none"))
    /\ UNCHANGED path
    /\ HostFrame

\* main: bind and listen; bind raises if a file is at the path.
BindOf(p) ==
    /\ At(p, "bind")
    /\ \E ok \in BOOLEAN :
          /\ ok => ~path.exists
          /\ IF ok
             THEN path' = FileOf(p) /\ Move(p, "ready", Running)
             ELSE path' = path /\ Move(p, "exited", Exited("bind", 1, "none"))
    /\ HostFrame

\* main: the readiness line is written and the accept loop begins.
ReadyOf(p) ==
    /\ At(p, "ready")
    /\ Move(p, "serving", Running)
    /\ UNCHANGED path
    /\ HostFrame

\* signal_handler, or handle_request with method shutdown: cleanup() and
\* sys.exit(0).  A shutdown request needs the accept loop.
StopOf(p) ==
    /\ \E by \in {"signal", "shutdown"} :
          /\ by = "shutdown" => At(p, "serving")
          /\ ~At(p, "off") /\ ~At(p, "exited")
          /\ \E c \in Cleanup(path.exists) :
                /\ path' = Unlink(p, c)
                /\ Move(p, "exited", Exited(by, 0, c.unlink))
    /\ HostFrame

HostNext ==
    \E p \in Daemons :
        \/ Launch(p)
        \/ CleanupAtStart(p)
        \/ LoadModelOf(p)
        \/ BindOf(p)
        \/ ReadyOf(p)
        \/ StopOf(p)

HostSpec == HostInit /\ [][HostNext]_vars

\* ------------------------------------------------------- media indicators
\* visual_observer_base.py.  An OCR text is a string of characters, put
\* together from at most MaxPieces pieces.
MaxPieces == 3

OcrPieces ==
    {<<"y", "o", "u", "t", "u", "b", "e">>,
     <<"Y", "o", "u", "T", "u", "b", "e">>,
     <<"y", "o", "u">>,
     <<"t", "u", "b", "e">>,
     <<"v", "i", "m", "e", "o">>,
     <<"N", "E", "T", "F", "L", "I", "X">>,
     <<".", "p", "n", "g">>,
     <<".", "J", "P", "G">>,
     <<".", "j", "p", "e", "g">>,
     <<".", "g", "i", "f">>,
     <<".", "w", "e", "b", "p">>,
     <<".", "s", "v", "g">>,
     <<" ">>,
     <<"t", "e", "x", "t">>}

\* The upper-case letters of the pieces and their lower-case forms.
LowerCase ==
    [Y |-> "y", T |-> "t", N |-> "n", E |-> "e", F |-> "f", L |-> "l", I |-> "i",
     X |-> "x", J |-> "j", P |-> "p", G |-> "g"]

\* ocr_text.lower()
Lower(text) ==
    [i \in 1..Len(text) |-> IF text[i] \in DOMAIN LowerCase THEN LowerCase[text[i]] ELSE text[i]]

\* sub in text
Contains(text, sub) ==
    \E k \in 0..(Len(text) - Len(sub)) : SubSeq(text, k + 1, k + Len(sub)) = sub

Youtube == <<"y", "o", "u", "t", "u", "b", "e">>
Vimeo == <<"v", "i", "m", "e", "o">>
Netflix == <<"n", "e", "t", "f", "l", "i", "x">>

image_extensions == <<<<".", "p", "n", "g">>, <<".", "j", "p", "g">>, <<".", "j", "p", "e", "g">>, <<".", "g", "i", "f">>, <<".", "w", "e", "b", "p">>>>

detect_media_indicators_perExtension(ocr_text) ==
    LET text_lower == Lower(ocr_text)
        If(cond, indicator) == IF cond THEN <<indicator>> ELSE <<>>
    IN  If(Contains(text_lower, Youtube), "youtube")
        \o If(Contains(text_lower, Vimeo), "vimeo")
        \o If(Contains(text_lower, Netflix), "netflix")
        \o If(Contains(text_lower, image_extensions[1]), "image-file")
        \o If(Contains(text_lower, image_extensions[2]), "image-file")

detect_media_indicators(ocr_text) ==
    LET text_lower == Lower(ocr_text)
        If(cond, indicator) == IF cond THEN <<indicator>> ELSE <<>>
    IN  If(Contains(text_lower, Youtube), "youtube")
        \o If(Contains(text_lower, Vimeo), "vimeo")
        \o If(Contains(text_lower, Netflix), "netflix")
        \o If(\E k \in 1..Len(image_extensions) : Contains(text_lower, image_extensions[k]),
              "image-file")

\* The OCR texts of at most n pieces.
RECURSIVE OcrTexts(_)
OcrTexts(n) ==
    IF n = 0 THEN {<<>>}
    ELSE OcrTexts(n - 1) \cup {piece \o text : piece \in OcrPieces, text \in OcrTexts(n - 1)}

\* A frame's OCR text is about to be examined; no daemon is involved.
MediaInit ==
    /\ pc = "observe"
    /\ ocrText \in OcrTexts(MaxPieces)
    /\ indicators = <<>>
    /\ exit = Running
    /\ engine = FALSE
    /\ stdout = <<>>
    /\ listening = FALSE
    /\ sockFile = FALSE
    /\ pending = 0
    /\ open = 0
    /\ inflight = 0
    /\ stream = <<>>
    /\ rpos = 0
    /\ buffer = <<>>
    /\ lineNo = 0
    /\ cur = NoReq
    /\ batch_idx = 0
    /\ log = <<>>
    /\ endReason = "none"
    /\ content_text = <<>>
    /\ results = <<>>
    /\ peer = "none"
    /\ logged = {}
    /\ call = NoCall
    /\ single = NoResult
    /\ daemons = NoDaemons
    /\ path = NoFile

\* detect_media_indicators(f["ocrText"])
Detect ==
    /\ pc = "observe"
    /\ indicators' = detect_media_indicators(ocrText)
    /\ pc' = "observed"
    /\ UNCHANGED ocrText
    /\ UNCHANGED <<pending, open, inflight, peer, logged>>
    /\ UNCHANGED proc
    /\ UNCHANGED conn
    /\ UNCHANGED parser
    /\ UNCHANGED hosts

MediaNext == Detect

MediaSpec == MediaInit /\ [][MediaNext]_vars

\* ------------------------------------------------------- observations
\* What a client of the connection can tell from the log: the lines handed
\* to the router, the Responses written and the inference calls made.
LineNos == 1..lineNo

TextOf(n) == log[CHOOSE i \in 1..Len(log) : log[i].ev = "line" /\ log[i].line = n].text

IsDescribe(n) ==
    LET j == JsonLoads(TextOf(n))
    IN  j.ok /\ j.t = "object" /\ Get(j.v, "method", "") = "describe_images"

IdOf(n) == Get(JsonLoads(TextOf(n)).v, "id", 0)

ReqParams(n) == Get(JsonLoads(TextOf(n)).v, "params", <<>>)

\* The request's frame list, N and B.
FramesOf(n) == Get(ReqParams(n), "images", <<>>)
NOf(n) == Len(FramesOf(n))
BOf(n) == Get(ReqParams(n), "batchSize", JInt(BATCH_SIZE))

\* The request runs batches: it has frames and a positive integer batch size.
RunsBatches(n) == IsDescribe(n) /\ NOf(n) >= 1 /\ BOf(n).t = "int" /\ BOf(n).n > 0

EventsOf(n) == SelectSeq(log, LAMBDA e : e.line = n)

RespsOf(n) ==
    LET s == SelectSeq(log, LAMBDA e : e.ev = "resp" /\ e.line = n)
    IN  [i \in 1..Len(s) |-> s[i].r]

CallsOf(n) ==
    LET s == SelectSeq(log, LAMBDA e : e.ev = "call" /\ e.line = n)
    IN  [i \in 1..Len(s) |-> s[i].frames]

IsDone(r) == "done" \in DOMAIN r /\ r.done = TRUE

IsBatchResp(r) == "batch" \in DOMAIN r

BatchRespsOf(n) == SelectSeq(RespsOf(n), IsBatchResp)

NonTerminalOf(n) == SelectSeq(RespsOf(n), LAMBDA r : ~IsDone(r))

DoneCount(n) == Cardinality({i \in 1..Len(RespsOf(n)) : IsDone(RespsOf(n)[i])})

\* handle_request has returned for line n.
Finished(n) == n < lineNo \/ pc \notin {"loop", "infer"}

CeilDiv(a, b) == (a + b - 1) \div b

\* Frames of batch k (1-based) of N frames in batches of B.
BatchLen(k, B, N) == Min(k * B, N) - (k - 1) * B

RECURSIVE Flatten(_)
Flatten(ss) == IF ss = <<>> THEN <<>> ELSE Head(ss) \o Flatten(Tail(ss))

RECURSIVE SumLen(_, _)
SumLen(ss, k) == IF k = 0 THEN 0 ELSE Len(ss[k]) + SumLen(ss, k - 1)

\* ------------------------------------------------------- claims
\* C1: every describe_images request that reaches the router receives exactly
\* one Response carrying done:true, whatever its params are and whatever the
\* inference engine does.
C1_ExactlyOneDone ==
    \A n \in LineNos : IsDescribe(n) /\ Finished(n) => DoneCount(n) = 1

\* C2: the batches handed to the inference engine partition the frame list:
\* batch k is the contiguous slice [(k-1)*B, min(k*B, N)), every frame belongs
\* to exactly one batch, and no batch is larger than B, for the request's
\* batch size B (supplied or default).
C2_BatchesPartition ==
    \A n \in LineNos :
        IsDescribe(n) /\ Finished(n) /\ BOf(n).t = "int" =>
            LET B == BOf(n).n
                N == NOf(n)
                calls == CallsOf(n)
            IN  /\ \A k \in 1..Len(calls) :
                      /\ Len(calls[k]) <= B
                      /\ calls[k] = [i \in 1..BatchLen(k, B, N) |-> FramesOf(n)[(k - 1) * B + i]]
                /\ Flatten(calls) = FramesOf(n)

\* C3: for N >= 1 frames and batch size B > 0 a request produces exactly
\* ceil(N/B) non-terminal Responses, and the FrameResults of the successful
\* ones plus the frames of the batches answered with an error number N.
C3_ResponseCount ==
    \A n \in LineNos :
        RunsBatches(n) /\ Finished(n) =>
            LET B == BOf(n).n
                N == NOf(n)
                rs == NonTerminalOf(n)
                Covered(r) == IF "results" \in DOMAIN r THEN r.results
                              ELSE [i \in 1..BatchLen(r.batch, B, N) |-> i]
            IN  /\ Len(rs) = CeilDiv(N, B)
                /\ SumLen([k \in 1..Len(rs) |-> Covered(rs[k])], Len(rs)) = N

C3_Witness ==
    \E n \in LineNos :
        /\ RunsBatches(n) /\ Finished(n)
        /\ NOf(n) = 5 /\ BOf(n).n = 3
        /\ \E k \in 1..Len(RespsOf(n)) : "error" \in DOMAIN RespsOf(n)[k]
        /\ \E k \in 1..Len(RespsOf(n)) : "results" \in DOMAIN RespsOf(n)[k]

\* C4: partial is true on every batch Response except the one covering the
\* last batch, where it is false, for successful and error Responses alike.
C4_PartialExceptLast ==
    \A n \in LineNos :
        IsDescribe(n) =>
            LET rs == BatchRespsOf(n)
            IN  /\ \A k \in 1..Len(rs) :
                      rs[k].partial = (k < CeilDiv(NOf(n), BOf(n).n))
                /\ \A k \in 1..(Len(rs) - 1) : rs[k].partial
                /\ Finished(n) /\ rs # <<>> => ~rs[Len(rs)].partial

\* 5 frames with batchSize 2: partial = true, true, false, then done; one of
\* the batches failed and one succeeded.
C4_Witness ==
    \E n \in LineNos :
        /\ IsDescribe(n) /\ Finished(n)
        /\ NOf(n) = 5 /\ BOf(n) = JInt(2)
        /\ [k \in 1..Len(BatchRespsOf(n)) |-> BatchRespsOf(n)[k].partial] = <<TRUE, TRUE, FALSE>>
        /\ [k \in 1..3 |-> Len(CallsOf(n)[k])] = <<2, 2, 1>>
        /\ "error" \in DOMAIN BatchRespsOf(n)[3]
        /\ "results" \in DOMAIN BatchRespsOf(n)[1]
        /\ IsDone(RespsOf(n)[Len(RespsOf(n))])

\* C5: across the batch Responses of a request progress.total is N,
\* progress.current is the number of frames covered by the batches so far
\* (failed ones included), never decreases, and is N on the last one.
C5_Progress ==
    \A n \in LineNos :
        IsDescribe(n) =>
            LET rs == BatchRespsOf(n)
                calls == CallsOf(n)
            IN  /\ \A k \in 1..Len(rs) :
                      /\ rs[k].progress.total = NOf(n)
                      /\ rs[k].progress.current = SumLen(calls, k)
                      /\ k > 1 => rs[k - 1].progress.current <= rs[k].progress.current
                /\ Finished(n) /\ rs # <<>> => rs[Len(rs)].progress.current = NOf(n)

C5_Witness ==
    \E n \in LineNos :
        /\ IsDescribe(n) /\ Finished(n)
        /\ NOf(n) = 5 /\ BOf(n) = JInt(3)
        /\ Len(BatchRespsOf(n)) = 2
        /\ "error" \in DOMAIN BatchRespsOf(n)[1]
        /\ BatchRespsOf(n)[1].progress = [current |-> 3, total |-> 5]
        /\ BatchRespsOf(n)[2].progress = [current |-> 5, total |-> 5]

\* C6: when the processing of batch k raises, the Response for batch k carries
\* error with the partial and progress a success would carry and neither
\* results nor stats; the later batches are still processed and answered and
\* the done Response is still sent.
C6_BatchErrorIsolated ==
    \A n \in LineNos :
        RunsBatches(n) =>
            LET B == BOf(n).n
                N == NOf(n)
                ev == EventsOf(n)
                rets == SelectSeq(ev, LAMBDA e : e.ev = "ret")
                rs == BatchRespsOf(n)
            IN  /\ Len(rs) = Len(rets)
                /\ \A k \in 1..Len(rets) :
                      rets[k].raised =>
                          /\ DOMAIN rs[k] = {"id", "batch", "error", "partial", "progress"}
                          /\ rs[k].id = IdOf(n)
                          /\ rs[k].batch = k
                          /\ rs[k].partial = (k * B < N)
                          /\ rs[k].progress = [current |-> Min(k * B, N), total |-> N]
                /\ Finished(n) =>
                      /\ Len(CallsOf(n)) = CeilDiv(N, B)
                      /\ Len(rs) = CeilDiv(N, B)
                      /\ DoneCount(n) = 1

\* The first batch raised, a later one succeeded, and done was sent.
C6_Witness ==
    \E n \in LineNos :
        /\ RunsBatches(n) /\ Finished(n)
        /\ Len(BatchRespsOf(n)) >= 3
        /\ "error" \in DOMAIN BatchRespsOf(n)[1]
        /\ "error" \in DOMAIN BatchRespsOf(n)[2]
        /\ "results" \in DOMAIN BatchRespsOf(n)[3]
        /\ DoneCount(n) = 1

\* C7: the Responses of a request are written in batch order, batch = 1, 2,
\* ..., ceil(N/B), each once and each before the next batch's inference call
\* starts; the done Response comes after all of them and is the last.
C7_BatchOrder ==
    \A n \in LineNos :
        IsDescribe(n) =>
            LET ev == EventsOf(n)
                Before(i, P(_)) == Cardinality({j \in 1..(i - 1) : P(ev[j])})
                IsCall(e) == e.ev = "call"
                IsBatchEv(e) == e.ev = "resp" /\ IsBatchResp(e.r)
            IN  /\ \A i \in 1..Len(ev) :
                      /\ IsCall(ev[i]) => Before(i, IsBatchEv) = Before(i, IsCall)
                      /\ IsBatchEv(ev[i]) =>
                            /\ ev[i].r.batch = Before(i, IsBatchEv) + 1
                            /\ Before(i, IsCall) = ev[i].r.batch
                      /\ ev[i].ev = "resp" /\ IsDone(ev[i].r) => i = Len(ev) /\ Finished(n)
                /\ RunsBatches(n) /\ Finished(n) =>
                      /\ [k \in 1..Len(BatchRespsOf(n)) |-> BatchRespsOf(n)[k].batch]
                            = [k \in 1..CeilDiv(NOf(n), BOf(n).n) |-> k]
                      /\ IsDone(RespsOf(n)[Len(RespsOf(n))])

\* The second inference call of a request has started and only the first
\* batch's Response has been written.
C7_Witness ==
    \E n \in LineNos :
        /\ RunsBatches(n)
        /\ pc = "infer"
        /\ Len(CallsOf(n)) = 2
        /\ Len(RespsOf(n)) = 1
        /\ RespsOf(n)[1].batch = 1

\* C8: a request whose image list is empty or absent receives exactly one
\* Response, with its id, error "No images provided" and done:true; no batch
\* is formed and the inference engine is not called.
C8_EmptyImages ==
    \A n \in LineNos :
        IsDescribe(n) /\ NOf(n) = 0 =>
            /\ RespsOf(n) = <<[id |-> IdOf(n), error |-> <<"No images provided">>, done |-> TRUE]>>
            /\ CallsOf(n) = <<>>

\* One request without an images member and one with an empty list and
\* batchSize 0 have been answered.
C8_Witness ==
    \E n, m \in LineNos :
        /\ IsDescribe(n) /\ "images" \notin DOMAIN ReqParams(n)
        /\ IsDescribe(m) /\ "images" \in DOMAIN ReqParams(m)
        /\ NOf(m) = 0 /\ BOf(m) = JInt(0)
        /\ IdOf(n) # IdOf(m)
        /\ Len(RespsOf(n)) = 1 /\ Len(RespsOf(m)) = 1

\* The lines handed to the router on this connection, in order.
Dispatched == [n \in LineNos |-> TextOf(n)]

\* The non-blank complete lines of a text, in order.
RECURSIVE NonBlankLines(_)
NonBlankLines(text) ==
    IF ~HasNewline(text) THEN <<>>
    ELSE LET s == SplitLine(text)
         IN  (IF Strip(s.line) = <<>> THEN <<>> ELSE <<s.line>>) \o NonBlankLines(s.rest)

\* C9: the lines dispatched for a connection depend only on the bytes the
\* client sent, not on how they are cut into reads: once the client's stream
\* has ended, the lines dispatched are those of the stream delivered in one
\* read, wherever the chunk boundaries fell.
C9_ChunkingIndependent ==
    pc = "close" /\ endReason # "reset" =>
        Dispatched = NonBlankLines(Utf8Decode(stream).text)

\* C10: the lines of a connection are handled one at a time and to
\* completion: every Response of a request is written before the next line is
\* handed to the router, so the Responses of different requests never
\* interleave.
C10_OneAtATime ==
    /\ \A i, j \in 1..Len(log) : i < j => log[i].line <= log[j].line
    /\ \A n \in LineNos : EventsOf(n)[1].ev = "line"
    /\ \A n \in LineNos :
          n < lineNo /\ RunsBatches(n) =>
              /\ Len(BatchRespsOf(n)) = CeilDiv(NOf(n), BOf(n).n)
              /\ IsDone(RespsOf(n)[Len(RespsOf(n))])

\* Two pipelined requests: the first ran two batches and is complete, the
\* second is inside its inference call.
C10_Witness ==
    /\ lineNo = 2
    /\ pc = "infer"
    /\ RunsBatches(1) /\ RunsBatches(2)
    /\ Len(BatchRespsOf(1)) = 2
    /\ IsDone(RespsOf(1)[Len(RespsOf(1))])
    /\ RespsOf(2) = <<>>

\* C11: whatever clients wait in the listen queue, the daemon serves at most
\* one connection at a time: a connection is accepted only when none is open,
\* the open one is closed only after its read loop has ended, and at most one
\* inference call is in progress, on behalf of the one open connection.
C11_OneConnection ==
    /\ open <= 1
    /\ inflight <= 1
    /\ AtAccept => open = 0
    /\ open = 1 => pc \in {"recv", "lines", "loop", "infer", "shutdown", "close", "exited"}
    /\ pc = "close" => open = 1 /\ endReason \in {"eof", "reset", "error"}
    /\ inflight = 1 => open = 1 /\ pc = "infer"

\* A client waits in the listen queue while the inference call of a request
\* of the connection being served is in progress.
C11_Witness ==
    /\ pending = 1
    /\ open = 1
    /\ inflight = 1
    /\ pc = "infer"

\* C12: every complete non-blank line received on a connection is handed to
\* the router and produces at least one Response there, an error Response if
\* it is not JSON; this covers JSON values that are no objects and requests
\* without id, method or params.  Empty and whitespace-only lines are skipped:
\* they are never handed to the router and produce nothing.
C12_EveryLineAnswered ==
    /\ \A n \in LineNos : Strip(TextOf(n)) # <<>>
    /\ \A n \in LineNos : Finished(n) => Len(RespsOf(n)) >= 1
    /\ \A n \in LineNos :
          ~JsonLoads(TextOf(n)).ok =>
              \E k \in 1..Len(RespsOf(n)) : "error" \in DOMAIN RespsOf(n)[k]
    /\ pc = "recv" => Dispatched = NonBlankLines(Utf8Decode(SubSeq(stream, 1, rpos)).text)
    /\ \A i \in 1..Len(log) : log[i].ev = "resp" => log[i].line \in LineNos

\* The client sent a whitespace-only line and a request without id, method
\* and params; only the request was handed to the router and it was answered.
C12_Witness ==
    /\ pc = "recv"
    /\ stream = <<Sp, NL, Open, Body(<<>>), NL>>
    /\ rpos = Len(stream)
    /\ lineNo = 1
    /\ RespsOf(1) = <<UnknownResponse(0, "")>>

MethodOf(n) == Get(JsonLoads(TextOf(n)).v, "method", "")

\* The line is a JSON object whose method is neither describe_images nor
\* shutdown.
IsUnknown(n) ==
    LET j == JsonLoads(TextOf(n))
    IN  j.ok /\ j.t = "object" /\ MethodOf(n) \notin {"describe_images", "shutdown"}

\* C13: a request with an unknown method receives exactly one Response,
\* {id, error: "Unknown method: <method>"} with its own id, and causes no
\* inference call; the daemon goes on with the lines of the same connection,
\* and a describe_images request that follows it runs all its batches and
\* gets its done Response.
C13_UnknownMethod ==
    \A n \in LineNos :
        IsUnknown(n) =>
            /\ RespsOf(n) = <<[id |-> IdOf(n), error |-> <<"Unknown method: ", MethodOf(n)>>]>>
            /\ CallsOf(n) = <<>>
            /\ n = lineNo => pc \in {"lines", "recv", "close"} /\ listening /\ open = 1
            /\ n < lineNo /\ RunsBatches(n + 1) /\ Finished(n + 1) =>
                  /\ Len(CallsOf(n + 1)) = CeilDiv(NOf(n + 1), BOf(n + 1).n)
                  /\ Len(BatchRespsOf(n + 1)) = CeilDiv(NOf(n + 1), BOf(n + 1).n)
                  /\ RespsOf(n + 1)[Len(RespsOf(n + 1))] = DoneResponse(IdOf(n + 1))

\* Method "foo" with id 1 was refused, and the describe_images request with
\* id 2 that followed on the same connection ran two batches and is done.
C13_Witness ==
    /\ lineNo = 2
    /\ IsUnknown(1) /\ MethodOf(1) = "foo" /\ IdOf(1) = 1
    /\ RunsBatches(2) /\ Finished(2)
    /\ Len(BatchRespsOf(2)) = 2
    /\ IsDone(RespsOf(2)[Len(RespsOf(2))])

\* json.loads raises JSONDecodeError on the line.
IsMalformed(n) == ~JsonLoads(TextOf(n)).ok

\* Handling the line raises another exception before any batch: the value is
\* no object, or range() refuses the batch size.
Raises(n) ==
    \/ JsonLoads(TextOf(n)).ok /\ JsonLoads(TextOf(n)).t # "object"
    \/ IsDescribe(n) /\ NOf(n) >= 1 /\ (BOf(n).t # "int" \/ BOf(n) = JInt(0))

\* C14: a line that is not JSON yields the single Response
\* {error: "Invalid JSON: ..."} without id, a line whose handling raises any
\* other exception yields the single Response {error: <message>}; after
\* either the connection stays open and the daemon goes on with its lines.
\* Once started, the process ends only by a shutdown request or a signal.
C14_FailuresContained ==
    /\ \A n \in LineNos :
          IsMalformed(n) =>
              /\ Len(RespsOf(n)) = 1
              /\ DOMAIN RespsOf(n)[1] = {"error"}
              /\ RespsOf(n)[1].error[1] = "Invalid JSON: "
    /\ \A n \in LineNos :
          Raises(n) =>
              /\ Len(RespsOf(n)) = 1
              /\ DOMAIN RespsOf(n)[1] = {"error"}
              /\ Len(RespsOf(n)[1].error) = 1
    /\ \A n \in LineNos :
          (IsMalformed(n) \/ Raises(n)) /\ n = lineNo =>
              pc \in {"lines", "recv", "close"} /\ listening /\ open = 1
    /\ pc = "exited" <=> exit # Running
    /\ pc = "exited" /\ stdout # <<>> => exit.by \in {"shutdown", "signal"}
    /\ exit.by = "shutdown" => MethodOf(lineNo) = "shutdown"

\* On one connection a line that is not JSON and a JSON scalar were each
\* answered with an error, and the line after them was handled as well.
C14_Witness ==
    /\ lineNo = 3
    /\ IsMalformed(1)
    /\ Raises(2)
    /\ Len(RespsOf(3)) = 1
    /\ pc = "recv"

IsShutdown(n) ==
    LET j == JsonLoads(TextOf(n))
    IN  j.ok /\ j.t = "object" /\ MethodOf(n) = "shutdown"

\* C15: on a shutdown request the Response {id, status: "shutting_down"} is
\* written while the socket still listens and its file exists; then the
\* listening socket is closed and the socket file unlinked (it stays only if
\* the unlink raised), and the process ends.  The shutdown line is the last
\* line handled: lines still in the buffer and clients waiting in the listen
\* queue are never served.
C15_Shutdown ==
    /\ \A n \in LineNos :
          IsShutdown(n) =>
              /\ n = lineNo
              /\ pc \in {"shutdown", "exited"}
              /\ RespsOf(n) = <<[id |-> IdOf(n), status |-> "shutting_down"]>>
              /\ log[Len(log)] = RespEv(n, RespsOf(n)[1])
    /\ pc = "shutdown" =>
          /\ lineNo >= 1 /\ IsShutdown(lineNo)
          /\ exit = Running /\ listening /\ sockFile
    /\ exit.by = "shutdown" =>
          /\ pc = "exited" /\ exit.code = 0
          /\ lineNo >= 1 /\ IsShutdown(lineNo)
          /\ ~listening
          /\ exit.unlink \in {"ok", "failed"}
          /\ sockFile <=> exit.unlink = "failed"
          /\ open = 1 /\ inflight = 0

\* The process has ended by a shutdown request while a complete request line
\* was still in the buffer of the connection and another client was waiting.
C15_Witness ==
    /\ exit.by = "shutdown"
    /\ ~listening /\ ~sockFile
    /\ NonBlankLines(buffer) # <<>>
    /\ pending = 1

\* C16: after an intentional stop, by a signal at any point after main has
\* installed its handlers or by a shutdown request, the process has exited
\* with code 0 and no file exists at the socket path.
C16_CleanStop ==
    exit.by \in {"signal", "shutdown"} => exit.code = 0 /\ ~sockFile

\* load_model called sys.exit(1), or socket, bind or listen raised.
StartupFailed == exit.by \in {"load_model", "bind"}

\* Where main is once startup is over.
Serving == pc \in {"accept", "recv", "lines", "loop", "infer", "close", "shutdown"}

\* What holds at each step of startup and after it.
C17_Stages ==
    /\ stdout \in {<<>>, <<ReadyLine>>}
    /\ pc \in {"cleanup", "load"} => ~engine /\ ~listening /\ stdout = <<>>
    /\ pc = "bind" => engine /\ ~listening /\ stdout = <<>>
    /\ pc = "ready" => engine /\ listening /\ sockFile /\ stdout = <<>>
    /\ Serving => engine /\ listening /\ stdout = <<ReadyLine>>
    /\ stdout # <<>> => engine
    /\ StartupFailed => stdout = <<>>

\* What a step of startup may do.
C17_Steps ==
    /\ pc = "cleanup" => pc' \in {"cleanup", "load", "exited"}
    /\ pc = "load" => pc' \in {"load", "bind", "exited"}
    /\ pc = "bind" => pc' \in {"bind", "ready", "exited"}
    /\ pc = "ready" => pc' \in {"ready", "accept", "exited"}
    /\ pc = "cleanup" /\ pc' = "load" => (sockFile' => sockFile)
    /\ engine' # engine => pc = "load" /\ pc' = "bind"
    /\ listening' /\ ~listening => pc = "bind" /\ pc' = "ready" /\ ~sockFile /\ sockFile'
    /\ stdout' # stdout =>
          /\ pc = "ready" /\ pc' = "accept"
          /\ engine /\ listening
          /\ stdout' = <<ReadyLine>>

\* C17: startup runs in this order: the removal of a stale socket file, the
\* loading of the engine, bind and listen on a path that holds no file, the
\* readiness line, the accept loop.  The readiness line is written at most
\* once, only with the engine loaded and the socket listening, it has been
\* written whenever the daemon serves, and never when startup failed.
C17_StartupOrder == []C17_Stages /\ [][C17_Steps]_vars

\* Startup is over: the readiness line is out and the daemon waits in accept.
C17_Witness ==
    /\ pc = "accept"
    /\ stdout = <<ReadyLine>>
    /\ engine /\ listening /\ sockFile
    /\ open = 0

\* C18: when the engine cannot be loaded or the socket cannot be bound, the
\* process ends with exit code 1; no readiness line has been written, no
\* client could connect and no connection has been accepted.
C18_StartupFailure ==
    /\ StartupFailed =>
          /\ pc = "exited"
          /\ exit.code = 1
          /\ stdout = <<>>
          /\ ~listening
          /\ pending = 0 /\ open = 0 /\ lineNo = 0 /\ log = <<>>
    /\ exit.by = "load_model" => ~engine
    /\ exit.by = "bind" => engine
    /\ pc = "exited" /\ stdout = <<>> /\ exit.code = 0 => exit.by = "signal"

\* The engine was loaded, but a file was left at the socket path and bind
\* failed.
C18_Witness ==
    /\ exit.by = "bind"
    /\ exit.code = 1
    /\ engine
    /\ sockFile

\* ------------------------------------------------------- parser results
\* The batch whose results are in `results`: the loop has advanced past it.
Parsed_base == batch_idx - cur.batch_size

JustParsed == pc = "loop" /\ results # <<>>

\* C19: every FrameResult carries the index of its source frame: the index
\* the request supplied for the frame, or, when the frame has no index
\* member, the frame's position in the whole image list of the request, in
\* every batch of the request.
C19_ResultIndex ==
    JustParsed =>
        \A i \in 1..Len(results) :
            results[i].index = Get(cur.images[Parsed_base + i], "index", Parsed_base + i - 1)

\* Where the span of a label ends: at the next frame label or the end of text.
RECURSIVE SpanEnd(_, _)
SpanEnd(t, i) == IF Kind(t, i) \in {"frame", "end"} THEN i ELSE SpanEnd(t, i + 1)

\* The text has a well-formed entry for frame n: a label "Frame n:" whose
\* span holds the four labelled fields in order.
HasEntry(t, n) ==
    \E i \in 1..Len(t) :
        /\ t[i] = FrameLabel(n)
        /\ MatchAt(SubSeq(t, i, SpanEnd(t, i + 1) - 1), 1).ok

IsPlaceholder(r, n, text) ==
    /\ r.description = FailedToParse(n)
    /\ r.activity = Unknown
    /\ r.apps = <<>>
    /\ r.topics = <<>>
    /\ "raw_response" \in DOMAIN r
    /\ r.raw_response = text

\* C20: the parser returns one result per frame of the batch, and for every
\* expected frame n without a well-formed entry in the generated text the
\* result is the placeholder ("Failed to parse Frame n", "unknown", empty
\* apps and topics, the full text as raw response), whatever the rest of the
\* text holds.
C20_Placeholder ==
    JustParsed =>
        /\ Len(results) = Len(Slice(cur.images, Parsed_base, batch_idx))
        /\ \A n \in 1..Len(results) :
              ~HasEntry(content_text, n) => IsPlaceholder(results[n], n, content_text)

\* The batch whose results are in `results`.
ParsedBatch == Slice(cur.images, Parsed_base, batch_idx)

\* The well-formed entry of frame n: its label and the span of the label.
EntryOf(t, n) ==
    LET i == CHOOSE i \in 1..Len(t) :
                 /\ t[i] = FrameLabel(n)
                 /\ MatchAt(SubSeq(t, i, SpanEnd(t, i + 1) - 1), 1).ok
    IN  SubSeq(t, i, SpanEnd(t, i + 1) - 1)

IsParsed(r) == "raw_response" \notin DOMAIN r

SameFields(r, e) ==
    /\ r.description = e.description
    /\ r.activity = e.activity
    /\ r.apps = e.apps
    /\ r.topics = e.topics

BarCount(t, i) == Cardinality({j \in 1..i : t[j] = Bar})

BarAt(t, k) == CHOOSE i \in 1..Len(t) : t[i] = Bar /\ BarCount(t, i) = k

\* t is one well-formed entry of frame 1: the label, then the four labelled
\* fields in order, separated by three "|".
IsSingleEntry(t) ==
    /\ Len(t) > 0
    /\ t[1] = FrameLabel(1)
    /\ \A i \in 2..Len(t) : t[i].k # "frame"
    /\ BarCount(t, Len(t)) = 3
    /\ Kind(t, SkipWs(t, 2)) = "description:"
    /\ \A j \in 1..3 : Kind(t, SkipWs(t, BarAt(t, j) + 1)) = FieldLabels[j + 1]

\* The text of field j of the entry: from its label to the next "|" or the end.
FieldText(t, j) ==
    LET from == IF j = 1 THEN SkipWs(t, 2) + 1 ELSE SkipWs(t, BarAt(t, j - 1) + 1) + 1
        to == IF j = 4 THEN Len(t) ELSE BarAt(t, j) - 1
    IN  SubSeq(t, from, to)

\* s without its leading and trailing whitespace.
Trimmed(s) ==
    LET ink == {i \in 1..Len(s) : s[i] # Sp}
    IN  IF ink = {} THEN <<>>
        ELSE SubSeq(s, CHOOSE i \in ink : \A j \in ink : i <= j,
                       CHOOSE i \in ink : \A j \in ink : i >= j)

\* The pieces of s between its commas, in order.
CommaCount(s, i) == Cardinality({j \in 1..i : s[j] = Comma})

CommaAt(s, k) ==
    IF k = 0 THEN 0
    ELSE IF k > CommaCount(s, Len(s)) THEN Len(s) + 1
    ELSE CHOOSE i \in 1..Len(s) : s[i] = Comma /\ CommaCount(s, i) = k

PiecesOf(s) ==
    [k \in 1..(CommaCount(s, Len(s)) + 1) |->
        Trimmed(SubSeq(s, CommaAt(s, k - 1) + 1, CommaAt(s, k) - 1))]

NonEmpty(item) == item # <<>>

ItemsOf(s) == SelectSeq(PiecesOf(s), NonEmpty)

\* s without one enclosing pair of brackets.
WithoutPair(s) ==
    IF Len(s) >= 2 /\ s[1] = LB /\ s[Len(s)] = RB THEN SubSeq(s, 2, Len(s) - 1) ELSE s

\* s without a leading "[" and without a trailing "]".
WithoutEnds(s) ==
    LET a == IF Len(s) >= 1 /\ s[1] = LB THEN SubSeq(s, 2, Len(s)) ELSE s
    IN  IF Len(a) >= 1 /\ a[Len(a)] = RB THEN SubSeq(a, 1, Len(a) - 1) ELSE a

\* No item is empty or begins or ends with whitespace.
CleanItems(list) ==
    \A i \in 1..Len(list) :
        /\ list[i] # <<>>
        /\ list[i][1] # Sp
        /\ list[i][Len(list[i])] # Sp

C28_OnePerFrame ==
    JustParsed =>
        /\ DOMAIN results = DOMAIN ParsedBatch
        /\ \A i \in DOMAIN results :
              /\ results[i].timestamp = ParsedBatch[i].timestamp
              /\ results[i].imagePath = ParsedBatch[i].imagePath

\* A batch of three frames: the second got a placeholder, the others are parsed.
C28_Witness ==
    /\ JustParsed
    /\ Len(results) = 3
    /\ IsParsed(results[1])
    /\ ~IsParsed(results[2])
    /\ IsParsed(results[3])
    /\ results[2].timestamp = 2
    /\ results[3].imagePath = <<"frame", 3>>

\* Where the label "Frame n:" stands in t.
LabelPos(t, n) ==
    CHOOSE i \in 1..Len(t) : t[i] = FrameLabel(n) /\ \A j \in 1..(i - 1) : t[j] # FrameLabel(n)

\* What follows the label of frame n up to the next frame label or the end.
SpanOf(t, n) == SubSeq(t, LabelPos(t, n) + 1, SpanEnd(t, LabelPos(t, n) + 1) - 1)

\* f is a piece of s.
IsInfix(f, s) == \E k \in 0..(Len(s) - Len(f)) : SubSeq(s, k + 1, k + Len(f)) = f

\* C29: the span of a frame ends at the next frame label or at the end of
\* the text: each field returned for a parsed frame n (description,
\* activity, every item of apps and of topics) is a piece of the text
\* between the label of frame n and the first frame label after it.
C29_SpanEndsAtNextLabel ==
    JustParsed =>
        \A n \in 1..Len(results) :
            IsParsed(results[n]) =>
                LET span == SpanOf(content_text, n)
                    r == results[n]
                IN  /\ IsInfix(r.description, span)
                    /\ IsInfix(r.activity, span)
                    /\ \A i \in 1..Len(r.apps) : IsInfix(r.apps[i], span)
                    /\ \A i \in 1..Len(r.topics) : IsInfix(r.topics[i], span)

\* t is the single-frame form: the four labelled fields in order from the
\* start of the text, without any frame label.
IsBareEntry(t) ==
    /\ Len(t) > 0
    /\ t[1] = DescriptionL
    /\ \A i \in 1..Len(t) : t[i].k # "frame"
    /\ BarCount(t, Len(t)) = 3
    /\ \A j \in 1..3 : Kind(t, SkipWs(t, BarAt(t, j) + 1)) = FieldLabels[j + 1]

\* C30: a batch of one frame is parsed with the single-frame variant: a text
\* 'description: D | activity: A | apps: L1 | topics: L2' from the start of
\* the text, without 'Frame 1:', gives a parsed FrameResult, no placeholder.
C30_SingleFrameVariant ==
    JustParsed /\ Len(ParsedBatch) = 1 /\ IsBareEntry(content_text) =>
        /\ IsParsed(results[1])
        /\ results[1].description = <<Word(1, "d")>>
        /\ results[1].activity = <<Word(1, "a")>>

\* ------------------------------------------------------- media indicators
IndicatorOrder == <<"youtube", "vimeo", "netflix", "image-file">>

\* The trigger of an indicator occurs in the text once lower-cased.
Triggered(indicator) ==
    LET lowered == Lower(ocrText)
        triggers == CASE indicator = "youtube" -> {Youtube}
                      [] indicator = "vimeo" -> {Vimeo}
                      [] indicator = "netflix" -> {Netflix}
                      [] indicator = "image-file" -> {image_extensions[k] : k \in 1..5}
    IN  \E trigger \in triggers : IsInfix(trigger, lowered)

\* C24: detect_media_indicators returns, in the order youtube, vimeo,
\* netflix, image-file, exactly the indicators whose trigger occurs in the
\* lower-cased text, image-file at most once, and the empty list when none
\* occurs.
C24_MediaIndicators ==
    pc = "observed" =>
        /\ indicators = SelectSeq(IndicatorOrder, Triggered)
        /\ (\A k \in 1..Len(IndicatorOrder) : ~Triggered(IndicatorOrder[k])) => indicators = <<>>

\* Two image extensions and an upper-case YouTube: youtube comes first and
\* image-file is there once.
C24_Witness ==
    /\ pc = "observed"
    /\ ocrText = <<".", "J", "P", "G">> \o <<"Y", "o", "u", "T", "u", "b", "e">> \o <<".", "p", "n", "g">>
    /\ indicators = <<"youtube", "image-file">>

\* ------------------------------------------------------- the end of a connection
\* What follows the last newline of a text.
RECURSIVE Unterminated(_)
Unterminated(text) == IF HasNewline(text) THEN Unterminated(SplitLine(text).rest) ELSE text

\* The read loop of the connection has ended: the text received is the
\* lines dispatched, blank lines, and what is left in the buffer, which has
\* no newline; every event of the connection belongs to a dispatched line
\* and no inference call is running.
C25_AtClose ==
    pc = "close" =>
        /\ \E q \in 0..rpos :
              /\ endReason # "error" => q = rpos
              /\ LET received == Utf8Decode(SubSeq(stream, 1, q))
                 IN  /\ received.ok
                     /\ Dispatched = NonBlankLines(received.text)
                     /\ buffer = Unterminated(received.text)
        /\ ~HasNewline(buffer)
        /\ \A i \in 1..Len(log) : log[i].line \in LineNos
        /\ inflight = 0
        /\ cur = NoReq

\* The step that closes the connection dispatches nothing: the buffer is
\* dropped, no line, Response or inference call is added.
C25_CloseStep ==
    pc = "close" =>
        IF pc' = "close"
        THEN UNCHANGED <<buffer, lineNo, log, inflight>>
        ELSE /\ buffer' = <<>>
             /\ lineNo' = 0
             /\ log' = <<>>
             /\ inflight' = 0
             /\ pc' \in {"accept", "exited"}

\* C25: when a connection ends (zero-byte read, reset or read error), what
\* remains in its buffer without a terminating newline is discarded: it is
\* never handed to the router, gets no Response and starts no inference call.
C25_TailDiscarded == []C25_AtClose /\ [][C25_CloseStep]_vars

\* The client sent a complete request object without a newline and closed:
\* the read loop has ended with the object in the buffer and nothing
\* dispatched.
C25_Witness ==
    /\ pc = "close"
    /\ endReason = "eof"
    /\ JsonLoads(buffer).ok
    /\ lineNo = 0
    /\ log = <<>>

\* ------------------------------------------------------- transport errors
\* The daemon is up: the engine is loaded, the socket listens, the process
\* has not ended.
Alive == exit = Running /\ engine /\ listening

\* A connection whose read loop ended with an error is still the open one
\* and the daemon is up and about to close it; at accept the daemon is up
\* with no connection and nothing left of an earlier one, and it takes the
\* next waiting client.
C26_Stages ==
    /\ pc = "close" =>
          /\ Alive
          /\ open = 1
          /\ ENABLED ConnClose
    /\ AtAccept =>
          /\ Alive
          /\ open = 0
          /\ inflight = 0
          /\ stream = <<>> /\ rpos = 0 /\ buffer = <<>>
          /\ lineNo = 0 /\ log = <<>> /\ cur = NoReq
          /\ endReason = "none" /\ peer = "none"
          /\ pending > 0 => ENABLED Accept

\* A failure of accept is logged and leaves the daemon at accept; a read
\* error is logged and leads to the closing of the connection; closing leads
\* back to accept; the process ends by a signal, by shutdown or at startup
\* only.
C26_Steps ==
    /\ "Accept error" \in logged' /\ logged' # logged =>
          /\ AtAccept
          /\ pc' = "accept"
          /\ UNCHANGED <<exit, engine, listening, sockFile, pending, open>>
    /\ pc = "recv" /\ endReason' \in {"reset", "error"} /\ endReason' # endReason =>
          /\ pc' = "close"
          /\ endReason' = "error" => "Connection error" \in logged'
          /\ UNCHANGED <<exit, engine, listening, sockFile, pending, open>>
    /\ pc = "close" /\ pc' \notin {"close", "exited"} =>
          /\ pc' = "accept"
          /\ open' = 0
          /\ UNCHANGED <<exit, engine, listening, sockFile, pending>>
    /\ exit' # exit => exit'.by \in {"signal", "shutdown", "load_model", "bind"}

\* C26: a failure of accept is logged and the accept loop goes on; a read
\* error on a connection (reset or any other exception while receiving or
\* decoding) ends that connection only, which is then closed; the daemon
\* stays up and accepts and serves the next connection as it would the first.
C26_ErrorsIsolated == []C26_Stages /\ [][C26_Steps]_vars

\* A chunk could not be decoded: the error is logged, the connection is
\* about to be closed, and the next client is waiting.
C26_Witness ==
    /\ pc = "close"
    /\ endReason = "error"
    /\ logged = {"Connection error"}
    /\ pending = 1
    /\ Alive

\* No generation call is started from a state in which a write to the
\* client has just failed.
C27_Step == "Failed to send response" \in logged => inflight' <= inflight

\* C27: a generation call that has started runs to completion whether or
\* not the client is still there; the disconnect shows at the next write,
\* whose failure is logged, and from that point the connection is abandoned:
\* no further generation call is made for it.
C27_AbandonedAtFailedWrite == [][C27_Step]_vars

\* ------------------------------------------------------- prompt of a batch
\* The parts of the prompt of the call in progress.
CallContent == call.prompt.messages[1].content

ImagePlaceholders == {i \in 1..Len(CallContent) : CallContent[i].type = "image"}

\* C32: the prompt of a batch is, for each frame in order, the label
\* "Frame p (timestamp: ts):" with p the frame's position in the batch from 1
\* and then one image placeholder, and after the frames one trailer carrying
\* the number of frames of the batch; generate gets the batch's image paths
\* in the same order, so there are as many placeholders as images and the
\* p-th placeholder stands for the p-th image; the temperature is 0.3.
C32_Prompt ==
    pc = "infer" =>
        LET n == Len(Batch)
        IN  /\ Len(CallContent) = 2 * n + 1
            /\ \A p \in 1..n :
                  /\ CallContent[2 * p - 1].type = "text"
                  /\ CallContent[2 * p - 1].text.label = "Frame"
                  /\ CallContent[2 * p - 1].text.frame_num = p
                  /\ CallContent[2 * p - 1].text.timestamp = Batch[p].timestamp
                  /\ CallContent[2 * p] = [type |-> "image"]
                  /\ call.image[p] = Batch[p].imagePath
            /\ CallContent[2 * n + 1].type = "text"
            /\ CallContent[2 * n + 1].text.FRAME_COUNT = n
            /\ CallContent[2 * n + 1].text.prompt \in {"vlm-batch.md", "inline"}
            /\ Len(call.image) = n
            /\ Cardinality(ImagePlaceholders) = Len(call.image)
            /\ call.temperature = "0.3"

\* The call for the second batch of a request of three frames in batches of
\* two: its one frame is labelled "Frame 1".
C32_Witness ==
    /\ pc = "infer"
    /\ batch_idx = 2
    /\ Len(Batch) = 1
    /\ CallContent[1].text.frame_num = 1
    /\ call.image = <<Batch[1].imagePath>>

\* ------------------------------------------------------- one grammar, two parsers
BothParsed == pc = "variant" /\ single # NoResult /\ results # <<>>

\* C31: parse_vlm_response(C) and the frame-1 result of
\* parse_interleaved_output("Frame 1: " + C) agree on description, activity,
\* apps and topics, item for item in the same order, and fall back to the
\* same values when C does not match.
C31_SameSemantics ==
    BothParsed =>
        /\ single.description = results[1].description
        /\ single.activity = results[1].activity
        /\ single.apps = results[1].apps
        /\ single.topics = results[1].topics

\* ------------------------------------------------------- one engine
\* The engine is loaded wherever the socket is bound, a connection is open,
\* a line has been handled or an inference call runs; it is not loaded
\* before the loading stage is over.
C33_Stages ==
    /\ listening \/ open > 0 \/ lineNo > 0 \/ inflight > 0 \/ log # <<>> => engine
    /\ pc \in {"cleanup", "load"} => ~engine

\* The engine changes in the loading step of startup only, with no socket
\* bound and nothing handled; the loading stage is entered from startup
\* only and startup is never entered again; an inference call starts with
\* the engine loaded and no step of a request or a connection touches it.
C33_Steps ==
    /\ engine' # engine =>
          /\ pc = "load" /\ pc' = "bind"
          /\ ~engine /\ engine'
          /\ ~listening /\ open = 0 /\ lineNo = 0 /\ log = <<>>
    /\ pc' = "load" => pc \in {"cleanup", "load"}
    /\ pc' = "cleanup" => pc = "cleanup"
    /\ inflight' > inflight => engine /\ engine'
    /\ (lineNo' # lineNo \/ log' # log \/ open' # open \/ inflight' # inflight) => engine' = engine

\* C33: the engine is loaded once per process, before the socket is bound
\* and before any request is handled; every inference call of every request
\* on every connection runs on that engine, and no request loads a model.
C33_OneEngine == []C33_Stages /\ [][C33_Steps]_vars

\* The second request of a connection has an inference call in progress.
C33_Witness ==
    /\ pc = "infer"
    /\ inflight = 1
    /\ lineNo = 2
    /\ engine
    /\ \E i \in 1..Len(log) : log[i].ev = "call" /\ log[i].line = 1

\* ------------------------------------------------------- shapes of the Responses
\* The members of the two batch shapes.
ResultShape == {"id", "batch", "results", "stats", "partial", "progress"}
ErrorShape == {"id", "batch", "error", "partial", "progress"}

\* The Responses written so far on this connection for describe_images lines.
DescribeResps == {log[i].r : i \in {j \in 1..Len(log) : log[j].ev = "resp" /\ IsDescribe(log[j].line)}}

\* C34: a batch Response of a describe_images request has the members id,
\* batch, partial and progress and either results and stats or error, never
\* both and never done; it carries error exactly when the batch's inference
\* call raised.  The terminal Response has id and done = true and none of
\* batch, results, stats, partial and progress.
C34_Shapes ==
    /\ \A r \in DescribeResps :
          /\ IsBatchResp(r) => DOMAIN r \in {ResultShape, ErrorShape}
          /\ IsDone(r) =>
                /\ {"id", "done"} \subseteq DOMAIN r
                /\ DOMAIN r \cap {"batch", "results", "stats", "partial", "progress"} = {}
          /\ "results" \in DOMAIN r \/ "stats" \in DOMAIN r \/ "partial" \in DOMAIN r
                \/ "progress" \in DOMAIN r => IsBatchResp(r)
    /\ \A i \in 1..Len(log) :
          log[i].ev = "ret" =>
              /\ i < Len(log)
              /\ log[i + 1].ev = "resp"
              /\ log[i + 1].line = log[i].line
              /\ DOMAIN log[i + 1].r = IF log[i].raised THEN ErrorShape ELSE ResultShape

\* A request of two batches is over: the first batch raised, the second
\* gave results, and the terminal Response is out.
C34_Witness ==
    /\ pc = "lines"
    /\ lineNo = 1
    /\ Len(RespsOf(1)) = 3
    /\ DOMAIN RespsOf(1)[1] = ErrorShape
    /\ DOMAIN RespsOf(1)[2] = ResultShape
    /\ DOMAIN RespsOf(1)[3] = {"id", "done"}

\* ------------------------------------------------------- a client that went away
\* With the client gone the daemon is up and not blocked: where it waits,
\* in recv, bytes are left to read or the end of the stream is there to be
\* found, and a connection whose read loop ended is there to be closed; the
\* requests it finished for that client ran every batch, answered each
\* according to what the engine did, and got their done.
C35_Stages ==
    /\ peer = "gone" /\ pc # "exited" =>
          /\ Alive
          /\ open = 1
          /\ pc \in {"recv", "lines", "loop", "infer", "close", "shutdown"}
          /\ pc = "recv" => rpos < Len(stream) \/ ENABLED RecvEof
          /\ pc = "close" => ENABLED ConnClose
    /\ peer = "gone" =>
          \A n \in LineNos :
              RunsBatches(n) /\ Finished(n) =>
                  LET rets == SelectSeq(EventsOf(n), LAMBDA e : e.ev = "ret")
                      rs == BatchRespsOf(n)
                  IN  /\ Len(CallsOf(n)) = CeilDiv(NOf(n), BOf(n).n)
                      /\ Len(rets) = Len(CallsOf(n))
                      /\ Len(rs) = Len(rets)
                      /\ \A k \in 1..Len(rs) : ("error" \in DOMAIN rs[k]) = rets[k].raised
                      /\ DoneCount(n) = 1

\* A step in which a write fails goes where it goes when the write
\* succeeds: after a batch to the head of the batch loop with the next
\* index, after done and after handle_request's own Responses to the next
\* line; it ends neither the connection nor the process.  With the client
\* gone the connection ends at a read only, is then closed, and the daemon
\* is back at accept; the process ends by a signal or a shutdown only.
C35_Steps ==
    /\ "Failed to send response" \in logged' /\ log' # log =>
          /\ peer = "gone"
          /\ UNCHANGED <<exit, engine, listening, sockFile, open, endReason, stream, rpos>>
          /\ pc = "infer" =>
                /\ pc' = "loop"
                /\ batch_idx' = batch_idx + cur.batch_size
                /\ cur' = cur
          /\ pc = "loop" => pc' = "lines"
          /\ pc = "lines" => pc' \in {"lines", "shutdown"}
    /\ peer = "gone" /\ pc # "close" /\ pc' = "close" => pc = "recv"
    /\ peer = "gone" /\ pc = "close" /\ pc' # "close" =>
          \/ pc' = "accept" /\ peer' = "none" /\ open' = 0 /\ UNCHANGED <<exit, engine, listening, sockFile>>
          \/ pc' = "exited" /\ exit'.by = "signal"
    /\ peer = "gone" /\ exit' # exit => exit'.by \in {"signal", "shutdown"}

\* C35: a failed write to the client never changes what the daemon does
\* next: it is not turned into a batch error and no batch is skipped for it;
\* the connection of a client that went away ends when the next read finds
\* it closed, is closed, and the daemon returns to accept; the daemon never
\* exits or stops because of it.
C35_WriteFailureIgnored == []C35_Stages /\ [][C35_Steps]_vars

\* The client left during the first of three batches; all three ran, one
\* raised, done was written, and the read that followed found the
\* connection closed.
C35_Witness ==
    /\ peer = "gone"
    /\ pc = "close"
    /\ endReason = "eof"
    /\ lineNo = 1
    /\ RunsBatches(1)
    /\ Len(CallsOf(1)) = 3
    /\ \E k \in 1..3 : "error" \in DOMAIN BatchRespsOf(1)[k]
    /\ \E k \in 1..3 : "results" \in DOMAIN BatchRespsOf(1)[k]
    /\ DoneCount(1) = 1

\* ------------------------------------------------------- every request answered
\* The complete lines of the bytes the client sent.
SentLines == NonBlankLines(Utf8Decode(stream).text)

IsDescribeLine(line) ==
    LET j == JsonLoads(line)
    IN  j.ok /\ j.t = "object" /\ Get(j.v, "method", "") = "describe_images"

IsShutdownLine(line) ==
    LET j == JsonLoads(line)
    IN  j.ok /\ j.t = "object" /\ Get(j.v, "method", "") = "shutdown"

\* The client sends no shutdown request.
NoShutdown == \A k \in 1..Len(SentLines) : ~IsShutdownLine(SentLines[k])

\* accept has just returned this connection.
JustAccepted == pc = "recv" /\ open = 1 /\ rpos = 0 /\ lineNo = 0 /\ buffer = <<>>

\* C36: with every inference call returning or raising, every client
\* closing its connection in the end and no shutdown request and no signal,
\* every complete describe_images line a connected client sent is answered
\* with its done Response: when the client has closed and the daemon has
\* read its stream to the end, each of those lines has been handed to the
\* router and has got its done.
C36_EveryRequestAnswered ==
    pc = "close" /\ endReason = "eof" /\ Utf8Decode(stream).ok /\ NoShutdown =>
        \A k \in 1..Len(SentLines) :
            IsDescribeLine(SentLines[k]) =>
                /\ k \in LineNos
                /\ TextOf(k) = SentLines[k]
                /\ DoneCount(k) = 1

\* While a connection is open no other is accepted, and a client is
\* accepted only with no connection open.
C36_Step == pending' < pending => open = 0 /\ open' = 1 /\ pc = "accept"

\* The daemon reads every connection to its end: a connection accepted is
\* in the end one whose read loop is over.
C36_ReadToEnd == JustAccepted /\ NoShutdown ~> pc = "close"

\* A client waiting behind a connection is served only after that
\* connection has ended.
C36_OneAfterAnother == [][C36_Step]_vars

\* ------------------------------------------------------- nothing kept
\* s is the end of t
IsSuffix(s, t) == Len(s) <= Len(t) /\ SubSeq(t, Len(t) - Len(s) + 1, Len(t)) = s

\* Whether each inference call of line n raised, in order.
RaisedOf(n) ==
    LET rets == SelectSeq(EventsOf(n), LAMBDA e : e.ev = "ret")
    IN  [k \in 1..Len(rets) |-> rets[k].raised]

\* The Responses of a describe_images request, from the request and from
\* what the engine did for each of its batches.
ExpectedDescribe(id, frames, b, raised) ==
    LET N == Len(frames)
        B == b.n
        Of(k) == Slice(frames, (k - 1) * B, k * B)
    IN  IF N = 0 THEN <<EmptyResponse(id)>>
        ELSE IF b.t # "int" THEN <<ExceptionResponse("'float' object cannot be interpreted as an integer")>>
        ELSE IF B = 0 THEN <<ExceptionResponse("range() arg 3 must not be zero")>>
        ELSE IF B < 0 THEN <<DoneResponse(id)>>
        ELSE [k \in 1..CeilDiv(N, B) |->
                 IF raised[k] THEN ErrorResponse(id, (k - 1) * B, B, Of(k), N)
                 ELSE OkResponse(id, (k - 1) * B, B, Of(k), N)]
             \o <<DoneResponse(id)>>

\* The Responses of line n, from its text and the engine alone.
Expected(n) ==
    IF IsDescribe(n) THEN ExpectedDescribe(IdOf(n), FramesOf(n), BOf(n), RaisedOf(n))
    ELSE LET out == HandleRequest(0, TextOf(n)).out
         IN  [i \in 1..Len(out) |-> out[i].r]

\* The Responses of every finished line are those its text and the engine's
\* outcomes give; the buffer holds the end of what this connection's client
\* sent and nothing else; at accept nothing of an earlier connection is
\* left.
C37_Stages ==
    /\ \A n \in LineNos : Finished(n) => RespsOf(n) = Expected(n)
    /\ pc \in {"recv", "lines", "loop", "infer", "shutdown"} \/ (pc = "close" /\ endReason # "error") =>
          IsSuffix(buffer, Utf8Decode(SubSeq(stream, 1, rpos)).text)
    /\ pc = "recv" /\ rpos = 0 => buffer = <<>> /\ lineNo = 0 /\ log = <<>>
    /\ AtAccept => buffer = <<>> /\ lineNo = 0 /\ log = <<>> /\ cur = NoReq /\ batch_idx = 0

\* accept returns a connection with an empty buffer, whatever the one
\* before left unread or unterminated.
C37_Steps ==
    pending' < pending =>
        /\ buffer' = <<>>
        /\ rpos' = 0
        /\ lineNo' = 0
        /\ log' = <<>>
        /\ UNCHANGED <<cur, batch_idx, exit, engine, listening, sockFile>>

\* C37: the daemon keeps nothing from one request or connection to the
\* next: an accepted connection starts with an empty line buffer, what an
\* earlier connection left unterminated is never put in front of a later
\* one's data, and the Responses to a request follow from that request and
\* from what the engine did for it, not from what was handled before.
C37_NoStateKept == []C37_Stages /\ [][C37_Steps]_vars

\* A request is over whose batch raised; the client closed leaving
\* unterminated bytes behind, and another client waits.
C37_Witness ==
    /\ pc = "close"
    /\ endReason = "eof"
    /\ lineNo = 1
    /\ RunsBatches(1)
    /\ RaisedOf(1) = <<TRUE>>
    /\ RespsOf(1) = Expected(1)
    /\ buffer # <<>>
    /\ pending = 1

\* ------------------------------------------------------- one path, two daemons
\* Process p has written its readiness line and has not been stopped.
Up(p) == daemons[p].pc = "serving"

\* C38: with two daemon processes on one socket path, neither the startup
\* cleanup nor the shutdown cleanup of one removes the socket file the other,
\* still running, listens on: a daemon that has written its readiness line
\* and has not been stopped is reachable at the path, which holds its socket.
C38_Reachable == \A p \in Daemons : Up(p) => path = FileOf(p)

====
